---- MODULE Spec2Model ----
(***************************************************************************)
(* The message-bus RPC fabric of advision-ai:                              *)
(*   - the backend MessageProducer shared by concurrent caller threads     *)
(*     (server/backend/src/message/message_producer.py),                   *)
(*   - the single-threaded broker MessageProducer                          *)
(*     (server/broker/message_producer.py),                                *)
(*   - the MessageConsumer of every worker with its three subscriptions    *)
(*     (server/broker/message_consumer.py) and the dispatch of             *)
(*     FaceTaskHandler.handle_task (server/fr_worker/face_task_handler.py),*)
(*   - the broker: the durable queues face_processing_tasks and            *)
(*     face_management_tasks, the fan-out exchange cache_updates with one  *)
(*     exclusive queue per connected worker, and the exclusive reply       *)
(*     queues of the two producers,                                        *)
(*   - the in-memory index of one FaceTaskHandler (companies, users,       *)
(*     faces, embeddings) under the tasks that read and change it,         *)
(*   - AdvertiseService.register_viewer and track_viewer with the rows     *)
(*     they commit (server/backend/src/service/advertise_service.py).      *)
(* Time is counted in iterations of the producers' polling loops.          *)
(***************************************************************************)
EXTENDS Integers, Sequences, FiniteSets, TLC

\* ------------------------------------------------------------------ bounds
NumCallers == 2          \* caller threads sharing the backend producer
NumWorkers == 2          \* worker processes
MaxCalls == 2            \* correlation ids (uuid4 values) ever generated
MaxDrops == 1            \* connection losses of each client
MaxRaw == 1              \* messages published by foreign publishers
TimeoutSteps == 1        \* config.timeout, in polling iterations
NumFaceIds == 2          \* face ids, numbered in their lexicographic order
NumImages == 3           \* images with a detectable face (image i yields embedding i)
MaxOps == 4              \* tasks handled by the FaceTaskHandler under observation
MaxViewers == 2          \* register_viewer calls
NumTrackers == 2         \* concurrent track_viewer requests
MaxTracks == 3           \* track_viewer calls
NumDays == 3             \* calendar days on which viewing sessions start
MaxSessions == 2         \* ViewingSession rows in the database that get_analytics reads
MaxRetries == 3          \* largest config.max_retries

Callers == 1..NumCallers
Workers == 1..NumWorkers

\* ------------------------------------------------------------- vocabulary
NoReply == "none"                    \* reply_to = None
NoCid == 0                           \* properties.correlation_id = None
ExtCid == MaxCalls + 1               \* a correlation id set by a foreign publisher
ExtQueue == <<"ext", 0>>             \* a reply queue of a foreign publisher

\* the task types of FaceTaskHandler.get_supported_tasks that the model uses
MutationTasks == {"create_user"}
ProcessingTasks == {"face_recognition"}
SupportedTasks == MutationTasks \cup ProcessingTasks

VARIABLES
    client,              \* which producer library the control plane runs: "backend" or "broker"
    \* backend MessageProducer (one instance shared by the caller threads)
    connection,          \* [id, is_closed]: self.connection / self.channel / self.response_queue
    pending_responses,   \* correlation_id -> Queue of replies
    pc,                  \* position of every caller thread in _send_message
    cid,                 \* correlation_id of the thread's current call
    wait,                \* wait_for_response of the thread's current call
    elapsed,             \* polling iterations of the thread's _wait_for_response
    result,              \* what _send_message returned or raised
    reset,               \* the connection was lost while the thread's call was waiting
    \* broker MessageProducer (single-threaded)
    bconnection, bpc, bcid, bwait, belapsed, bresult,
    \* the broker
    nextCid,             \* uuid4 values handed out so far
    replyQ,              \* the backend producer's exclusive reply queue
    breplyQ,             \* the broker producer's exclusive reply queue
    procQ,               \* face_processing_tasks
    legacyQ,             \* face_management_tasks
    mgmtQ,               \* worker -> its exclusive queue bound to cache_updates
    published,           \* mutations published on cache_updates
    raws,                \* messages published by foreign publishers
    \* workers
    wconn,               \* worker -> its connection is open
    wdrops,              \* worker -> connection losses so far
    index,               \* worker -> mutations applied to its in-memory index
    last,                \* the most recent delivery handled by a consumer callback
    \* the FaceTaskHandler of one worker
    cache,               \* [companies, users, faces, embeddings]: the in-memory storage
    owner,               \* face_id -> <<company, user>> whose enrolment stored embeddings[face_id]
    op,                  \* the most recent task handled and its response
    nops,                \* tasks handled so far
    \* the backend AdvertiseService and its database
    db,                  \* [users, faces, sessions, analytics]: the committed rows
    viewer,              \* the outcome of the most recent register_viewer call
    nviewers,            \* register_viewer calls so far
    tpc,                 \* position of every track_viewer request
    seen,                \* the Analytics row each track_viewer request has read
    tracked,             \* <<user, org>> -> track_viewer calls that committed a detection
    ntracks,             \* track_viewer calls so far
    \* get_analytics
    tables,              \* [users, sessions, analytics]: the rows get_analytics reads, with their times
    report,              \* the most recent get_analytics request and its result
    \* _setup_connection
    setup,               \* component -> the state of its connection retry loop
    \* MessageConsumer.start_consuming
    cons,                \* the consumer: its position in start_consuming and its fields
    broker,              \* the broker as the consumer meets it
    \* the backend services
    call                 \* the most recent service call: what it published and committed, in order

bevars == <<connection, pending_responses, pc, cid, wait, elapsed, result, reset>>
bpvars == <<bconnection, bpc, bcid, bwait, belapsed, bresult>>
brvars == <<nextCid, replyQ, breplyQ, procQ, legacyQ, mgmtQ, published, raws>>
wvars == <<wconn, wdrops, index, last>>
hvars == <<cache, owner, op, nops>>
svars == <<db, viewer, nviewers, tpc, seen, tracked, ntracks>>
avars == <<tables, report>>
rvars == <<setup>>
lvars == <<cons, broker>>
cvars == <<call>>
vars == <<client, bevars, bpvars, brvars, wvars, hvars, svars, avars, rvars, lvars, cvars>>

\* ---------------------------------------------------------------- helpers
NoResult == [kind |-> "none", message |-> "none", cid |-> NoCid]
NoMsg == [cid |-> NoCid, reply_to |-> NoReply, task |-> "none", beh |-> "ok", body |-> "json"]
NoLast == [worker |-> 0, queue |-> "none", msg |-> NoMsg, response |-> "none", raised |-> FALSE,
           acks |-> 0, nacks |-> 0, requeue |-> FALSE, replies |-> <<>>]

\* the name of the exclusive reply queue declared on a connection
BackendQueue(conn) == <<"be", conn.id>>
BrokerQueue(conn) == <<"bp", conn.id>>

\* ------------------------------------------------------------- the broker
\* basic_publish on the default exchange with a routing key: the messages
\* reach the queue of that name while it exists and are dropped otherwise.
RECURSIVE RouteAll(_, _, _)
RouteAll(q, name, replies) ==
    IF replies = <<>> THEN q
    ELSE RouteAll(IF Head(replies).routing_key = name THEN Append(q, Head(replies).body) ELSE q,
                  name, Tail(replies))

\* the task message a producer publishes (the enhanced_message and its properties)
Message(c, replyTo, task, beh) ==
    [cid |-> c, reply_to |-> replyTo, task |-> task, beh |-> beh, body |-> "json"]

\* publishing on an exchange: cache_updates copies the message to the
\* exclusive queue of every connected worker, face_tasks routes it to
\* face_processing_tasks, the default exchange to face_management_tasks.
ProcAfterPublish(exchange, m) == IF exchange = "face_tasks" THEN Append(procQ, m) ELSE procQ
LegacyAfterPublish(exchange, m) == IF exchange = "" THEN Append(legacyQ, m) ELSE legacyQ
MgmtAfterPublish(exchange, m) ==
    IF exchange = "cache_updates"
    THEN [w \in Workers |-> IF wconn[w] THEN Append(mgmtQ[w], m) ELSE mgmtQ[w]]
    ELSE mgmtQ
PublishedAfter(exchange, m) ==
    IF exchange = "cache_updates" /\ m.task \in MutationTasks /\ m.beh = "ok"
           /\ (\E w \in Workers : wconn[w])
    THEN published \cup {m.cid}
    ELSE published

\* the public methods fix the exchange of every task type
ExchangeOf(task) == IF task \in MutationTasks THEN "cache_updates" ELSE "face_tasks"

\* ------------------------------------------------- backend MessageProducer
\* except Exception as e: raise ProducerError(f"Message sending failed: {e}")
Wrap(exc, message, c) == [kind |-> "ProducerError", message |-> message, cid |-> c]

\* _on_response: a reply is put on the queue registered under its correlation_id
\* (a faulty variant: the reply is put on the oldest registered queue)
OnResponseMutant(pend, reply) ==
    IF DOMAIN pend # {}
    THEN LET k == CHOOSE k \in DOMAIN pend : \A j \in DOMAIN pend : k <= j
         IN  [pend EXCEPT ![k] = Append(@, reply)]
    ELSE pend
OnResponse(pend, reply) ==
    IF reply.cid \in DOMAIN pend
    THEN [pend EXCEPT ![reply.cid] = Append(@, reply)]
    ELSE pend

\* process_data_events dispatches the buffered replies to _on_response in order
RECURSIVE Dispatch(_, _)
Dispatch(pend, replies) ==
    IF replies = <<>> THEN pend
    ELSE Dispatch(OnResponse(pend, Head(replies)), Tail(replies))

\* self.pending_responses.pop(correlation_id, None)
\* (a faulty variant: the entry is left behind)
PopMutant(pend, c) == pend
Pop(pend, c) == [k \in DOMAIN pend \ {c} |-> pend[k]]

\* _setup_connection: a new connection, channel and exclusive reply queue
SetupConnection(conn) == [id |-> conn.id + 1, is_closed |-> FALSE]

\* _send_message up to the publish: uuid4, _ensure_connection, registration
Call(c) ==
    /\ client = "backend"
    /\ pc[c] \in {"idle", "done"}
    /\ nextCid < MaxCalls
    /\ nextCid' = nextCid + 1
    /\ \E w \in BOOLEAN, ok \in BOOLEAN :
        /\ wait' = [wait EXCEPT ![c] = w]
        /\ cid' = [cid EXCEPT ![c] = nextCid + 1]
        /\ elapsed' = [elapsed EXCEPT ![c] = 0]
        /\ reset' = [reset EXCEPT ![c] = FALSE]
        /\ IF connection.is_closed /\ ~ok
           THEN \* _setup_connection raised ConnectionError
                /\ pc' = [pc EXCEPT ![c] = "done"]
                /\ result' = [result EXCEPT ![c] = Wrap("ConnectionError", "Failed to connect", nextCid + 1)]
                /\ UNCHANGED <<connection, pending_responses, replyQ>>
           ELSE /\ connection' = IF connection.is_closed THEN SetupConnection(connection) ELSE connection
                /\ replyQ' = IF connection.is_closed THEN <<>> ELSE replyQ
                /\ pending_responses' =
                       IF w THEN [k \in DOMAIN pending_responses \cup {nextCid + 1} |->
                                     IF k = nextCid + 1 THEN <<>> ELSE pending_responses[k]]
                       ELSE pending_responses
                /\ pc' = [pc EXCEPT ![c] = "publish"]
                /\ result' = [result EXCEPT ![c] = NoResult]
    /\ UNCHANGED <<client, cvars, lvars, avars, rvars, hvars, svars, bpvars, breplyQ, procQ, legacyQ, mgmtQ, published, raws, wvars>>

\* channel.basic_publish and what follows it up to the wait loop
Publish(c) ==
    /\ pc[c] = "publish"
    /\ IF connection.is_closed
       THEN \* basic_publish raised: cleanup, ProducerError
            /\ pending_responses' = Pop(pending_responses, cid[c])
            /\ pc' = [pc EXCEPT ![c] = "done"]
            /\ result' = [result EXCEPT ![c] = Wrap("ConnectionClosed", "connection closed", cid[c])]
            /\ UNCHANGED <<procQ, legacyQ, mgmtQ, published>>
       ELSE \E task \in SupportedTasks, beh \in {"ok", "fail"} :
            LET m == Message(cid[c], IF wait[c] THEN BackendQueue(connection) ELSE NoReply, task, beh)
                ex == ExchangeOf(task)
            IN  /\ procQ' = ProcAfterPublish(ex, m)
                /\ legacyQ' = LegacyAfterPublish(ex, m)
                /\ mgmtQ' = MgmtAfterPublish(ex, m)
                /\ published' = PublishedAfter(ex, m)
                /\ IF wait[c]
                   THEN /\ pc' = [pc EXCEPT ![c] = "waiting"]
                        /\ UNCHANGED result
                   ELSE /\ pc' = [pc EXCEPT ![c] = "done"]
                        /\ result' = [result EXCEPT ![c] =
                               [kind |-> "sent", message |-> "none", cid |-> cid[c]]]
                /\ UNCHANGED pending_responses
    /\ UNCHANGED <<client, cvars, lvars, avars, rvars, hvars, svars, connection, cid, wait, elapsed, reset, bpvars, nextCid, replyQ, breplyQ, raws, wvars>>

\* the outcome of response_queue.get in _wait_for_response
Outcome(response, c) ==
    IF response.status = "error"
    THEN Wrap("ProducerError", "Worker error", response.cid)
    ELSE [kind |-> "response", message |-> "none", cid |-> response.cid]

\* one iteration of the loop of _wait_for_response, with its finally clause
\* and the except clause of _send_message when it leaves the loop
\* (PollTimedOutMutant: a faulty deadline test, one iteration late)
PollTimedOutMutant(c) == elapsed[c] > TimeoutSteps + 1
PollTimedOut(c) == elapsed[c] > TimeoutSteps
Poll(c) ==
    /\ pc[c] = "waiting"
    /\ IF PollTimedOut(c)
       THEN /\ pending_responses' = Pop(pending_responses, cid[c])
            /\ pc' = [pc EXCEPT ![c] = "done"]
            /\ result' = [result EXCEPT ![c] = Wrap("TimeoutError", "Request timed out", cid[c])]
            /\ UNCHANGED <<replyQ, elapsed>>
       ELSE IF connection.is_closed
       THEN \* process_data_events raised
            /\ pending_responses' = Pop(pending_responses, cid[c])
            /\ pc' = [pc EXCEPT ![c] = "done"]
            /\ result' = [result EXCEPT ![c] = Wrap("ConnectionClosed", "connection closed", cid[c])]
            /\ UNCHANGED <<replyQ, elapsed>>
       ELSE \E k \in 0..Len(replyQ) :
            LET pend == Dispatch(pending_responses, SubSeq(replyQ, 1, k))
            IN  /\ replyQ' = SubSeq(replyQ, k + 1, Len(replyQ))
                /\ IF pend[cid[c]] # <<>>
                   THEN /\ pending_responses' = Pop(pend, cid[c])
                        /\ pc' = [pc EXCEPT ![c] = "done"]
                        /\ result' = [result EXCEPT ![c] = Outcome(Head(pend[cid[c]]), cid[c])]
                        /\ UNCHANGED elapsed
                   ELSE /\ pending_responses' = pend
                        /\ elapsed' = [elapsed EXCEPT ![c] = @ + 1]
                        /\ UNCHANGED <<pc, result>>
    /\ UNCHANGED <<client, cvars, lvars, avars, rvars, hvars, svars, connection, cid, wait, reset, bpvars, nextCid, breplyQ, procQ, legacyQ, mgmtQ,
                   published, raws, wvars>>

\* the broker connection of the backend producer is lost; the broker deletes
\* the exclusive reply queue with it
Drop ==
    /\ client = "backend"
    /\ ~connection.is_closed
    /\ connection.id <= MaxDrops
    /\ connection' = [connection EXCEPT !.is_closed = TRUE]
    /\ replyQ' = <<>>
    /\ reset' = [c \in Callers |-> reset[c] \/ pc[c] = "waiting"]
    /\ UNCHANGED <<client, cvars, lvars, avars, rvars, hvars, svars, pending_responses, pc, cid, wait, elapsed, result, bpvars, nextCid, breplyQ,
                   procQ, legacyQ, mgmtQ, published, raws, wvars>>

\* -------------------------------------------------- broker MessageProducer
\* _send_message up to the publish: uuid4 and _ensure_connection
BCall ==
    /\ client = "broker"
    /\ bpc \in {"idle", "done"}
    /\ nextCid < MaxCalls
    /\ nextCid' = nextCid + 1
    /\ bcid' = nextCid + 1
    /\ belapsed' = 0
    /\ \E w \in BOOLEAN, ok \in BOOLEAN :
        /\ bwait' = w
        /\ IF bconnection.is_closed /\ ~ok
           THEN /\ bpc' = "done"
                /\ bresult' = Wrap("ConnectionError", "Failed to connect", nextCid + 1)
                /\ UNCHANGED <<bconnection, breplyQ>>
           ELSE /\ bconnection' = IF bconnection.is_closed THEN SetupConnection(bconnection)
                                  ELSE bconnection
                /\ breplyQ' = IF bconnection.is_closed THEN <<>> ELSE breplyQ
                /\ bpc' = "publish"
                /\ bresult' = NoResult
    /\ UNCHANGED <<client, cvars, lvars, avars, rvars, hvars, svars, bevars, replyQ, procQ, legacyQ, mgmtQ, published, raws, wvars>>

\* channel.basic_publish: a public method with its exchange when the call
\* waits, send_fire_and_forget with any exchange when it does not
BPublish ==
    /\ bpc = "publish"
    /\ IF bconnection.is_closed
       THEN /\ bpc' = "done"
            /\ bresult' = Wrap("ConnectionClosed", "connection closed", bcid)
            /\ UNCHANGED <<procQ, legacyQ, mgmtQ, published>>
       ELSE \E task \in SupportedTasks, beh \in {"ok", "fail"},
               ex \in {"face_tasks", "cache_updates", ""} :
            LET m == Message(bcid, IF bwait THEN BrokerQueue(bconnection) ELSE NoReply, task, beh)
            IN  /\ bwait => ex = ExchangeOf(task)
                /\ procQ' = ProcAfterPublish(ex, m)
                /\ legacyQ' = LegacyAfterPublish(ex, m)
                /\ mgmtQ' = MgmtAfterPublish(ex, m)
                /\ published' = PublishedAfter(ex, m)
                /\ IF bwait
                   THEN /\ bpc' = "waiting"
                        /\ UNCHANGED bresult
                   ELSE /\ bpc' = "done"
                        /\ bresult' = [kind |-> "sent", message |-> "none", cid |-> bcid]
    /\ UNCHANGED <<client, cvars, lvars, avars, rvars, hvars, svars, bevars, bconnection, bcid, bwait, belapsed, nextCid, replyQ, breplyQ, raws, wvars>>

\* header_frame.correlation_id == correlation_id
\* (BMatchesMutant: a faulty variant that takes any reply)
BMatchesMutant(reply, c) == TRUE
BMatches(reply, c) == reply.cid = c

\* one iteration of the loop of _wait_for_response: the deadline,
\* _ensure_connection, one basic_get with auto_ack, the sleep
BPoll ==
    /\ bpc = "waiting"
    /\ IF belapsed > TimeoutSteps
       THEN /\ bpc' = "done"
            /\ bresult' = Wrap("TimeoutError", "Request timed out", bcid)
            /\ UNCHANGED <<bconnection, breplyQ, belapsed>>
       ELSE \E ok \in BOOLEAN :
            IF bconnection.is_closed /\ ~ok
            THEN /\ bpc' = "done"
                 /\ bresult' = Wrap("ConnectionError", "Failed to connect", bcid)
                 /\ UNCHANGED <<bconnection, breplyQ, belapsed>>
            ELSE IF bconnection.is_closed
            THEN \* reconnected: the new reply queue is empty
                 /\ bconnection' = SetupConnection(bconnection)
                 /\ breplyQ' = <<>>
                 /\ belapsed' = belapsed + 1
                 /\ UNCHANGED <<bpc, bresult>>
            ELSE /\ UNCHANGED bconnection
                 /\ IF breplyQ = <<>>
                    THEN /\ belapsed' = belapsed + 1
                         /\ UNCHANGED <<bpc, bresult, breplyQ>>
                    ELSE /\ breplyQ' = Tail(breplyQ)
                         /\ IF BMatches(Head(breplyQ), bcid)
                            THEN /\ bpc' = "done"
                                 /\ bresult' = Outcome(Head(breplyQ), bcid)
                                 /\ UNCHANGED belapsed
                            ELSE /\ belapsed' = belapsed + 1
                                 /\ UNCHANGED <<bpc, bresult>>
    /\ UNCHANGED <<client, cvars, lvars, avars, rvars, hvars, svars, bevars, bcid, bwait, nextCid, replyQ, procQ, legacyQ, mgmtQ, published, raws, wvars>>

\* the broker connection of the broker producer is lost
BDrop ==
    /\ client = "broker"
    /\ ~bconnection.is_closed
    /\ bconnection.id <= MaxDrops
    /\ bconnection' = [bconnection EXCEPT !.is_closed = TRUE]
    /\ breplyQ' = <<>>
    /\ UNCHANGED <<client, cvars, lvars, avars, rvars, hvars, svars, bevars, bpc, bcid, bwait, belapsed, bresult, nextCid, replyQ, procQ, legacyQ,
                   mgmtQ, published, raws, wvars>>

\* ---------------------------------------------------------------- workers
\* FaceTaskHandler.handle_task: the status of the response it returns. A task
\* method that fails either returns an error response or raises (exc); the
\* exception is caught and reported as an error response too.
HandleTask(task, beh, exc) ==
    IF task \in SupportedTasks
    THEN IF beh = "ok" THEN "success"
         ELSE IF exc THEN "error"     \* except Exception: return {"status": "error", ...}
         ELSE "error"                 \* the task method returned the error response
    ELSE "error"                      \* Unsupported task type

\* the index after handle_task: a mutation that succeeds is applied
IndexAfter(idx, m) ==
    IF m.body = "json" /\ m.task \in MutationTasks /\ m.beh = "ok" THEN idx \cup {m.cid} ELSE idx

\* correlation_id = properties.correlation_id or 'unknown'
CorrelationId(m) == IF m.cid = NoCid THEN "unknown" ELSE m.cid

\* _send_response, when the message carries reply_to: one message on the
\* default exchange, routed by reply_to, with the worker_id and the result
\* (faulty variants: the reply is published twice; only a success is answered)
SendResponseTwice(w, m, status) ==
    IF m.reply_to # NoReply
    THEN LET r == [routing_key |-> m.reply_to,
                   body |-> [cid |-> CorrelationId(m), status |-> status, worker |-> w,
                             task |-> m.task]]
         IN  << r, r >>
    ELSE <<>>
SendResponseOnSuccess(w, m, status) ==
    IF m.reply_to # NoReply /\ status = "success"
    THEN << [routing_key |-> m.reply_to,
             body |-> [cid |-> CorrelationId(m), status |-> status, worker |-> w,
                       task |-> m.task]] >>
    ELSE <<>>
SendResponse(w, m, status) ==
    IF m.reply_to # NoReply
    THEN << [routing_key |-> m.reply_to,
             body |-> [cid |-> CorrelationId(m), status |-> status, worker |-> w,
                       task |-> m.task]] >>
    ELSE <<>>

\* the body of _handle_processing_task, _handle_management_fanout and
\* _handle_management_direct: what the callback did with one delivery
\* (CallbackRequeue: a faulty variant that NACKs with requeue=True)
CallbackRequeue(w, queue, m, exc) ==
    IF m.body # "json"
    THEN [worker |-> w, queue |-> queue, msg |-> m, response |-> "exception", raised |-> FALSE,
          acks |-> 0, nacks |-> 1, requeue |-> TRUE, replies |-> SendResponse(w, m, "error")]
    ELSE LET status == IF m.task \in SupportedTasks THEN HandleTask(m.task, m.beh, exc)
                       ELSE "error"
         IN  [worker |-> w, queue |-> queue, msg |-> m, response |-> status,
              raised |-> (m.task \in SupportedTasks /\ m.beh # "ok" /\ exc),
              acks |-> 1, nacks |-> 0, requeue |-> FALSE, replies |-> SendResponse(w, m, status)]
Callback(w, queue, m, exc) ==
    IF m.body # "json"
    THEN \* json.loads raised: error response, basic_nack(requeue=False)
         [worker |-> w, queue |-> queue, msg |-> m, response |-> "exception", raised |-> FALSE,
          acks |-> 0, nacks |-> 1, requeue |-> FALSE, replies |-> SendResponse(w, m, "error")]
    ELSE LET status == IF m.task \in SupportedTasks THEN HandleTask(m.task, m.beh, exc)
                       ELSE "error"
         IN  [worker |-> w, queue |-> queue, msg |-> m, response |-> status,
              raised |-> (m.task \in SupportedTasks /\ m.beh # "ok" /\ exc),
              acks |-> 1, nacks |-> 0, requeue |-> FALSE, replies |-> SendResponse(w, m, status)]

\* the effects of a callback outside the queue it consumed from
Handled(w, queue, m, exc) ==
    /\ index' = [index EXCEPT ![w] = IndexAfter(@, m)]
    /\ replyQ' = IF connection.is_closed THEN replyQ
                 ELSE RouteAll(replyQ, BackendQueue(connection), Callback(w, queue, m, exc).replies)
    /\ breplyQ' = IF bconnection.is_closed THEN breplyQ
                  ELSE RouteAll(breplyQ, BrokerQueue(bconnection), Callback(w, queue, m, exc).replies)
    /\ UNCHANGED <<client, cvars, lvars, avars, rvars, hvars, svars, bevars, bpvars, nextCid, published, raws, wconn, wdrops>>

\* the record of what the callback of worker w does with the delivery at the
\* head of a queue
Observe(w, queue, q, exc) == last' = Callback(w, queue, Head(q), exc)

HandleProcessingTask(w, exc) ==
    /\ wconn[w]
    /\ procQ # <<>>
    /\ procQ' = Tail(procQ)
    /\ Handled(w, "face_processing_tasks", Head(procQ), exc)
    /\ UNCHANGED <<legacyQ, mgmtQ>>

HandleManagementFanout(w, exc) ==
    /\ wconn[w]
    /\ mgmtQ[w] # <<>>
    /\ mgmtQ' = [mgmtQ EXCEPT ![w] = Tail(@)]
    /\ Handled(w, "cache_updates", Head(mgmtQ[w]), exc)
    /\ UNCHANGED <<procQ, legacyQ>>

HandleManagementDirect(w, exc) ==
    /\ wconn[w]
    /\ legacyQ # <<>>
    /\ legacyQ' = Tail(legacyQ)
    /\ Handled(w, "face_management_tasks", Head(legacyQ), exc)
    /\ UNCHANGED <<procQ, mgmtQ>>

\* the delivery as one worker's handler meets it: a task that the publisher
\* sent well-formed fails on a worker whose own state makes handle_task
\* return an error or raise (fails)
LocalDelivery(m, fails) == [m EXCEPT !.beh = IF fails THEN "fail" ELSE @]

\* _handle_management_fanout on a worker whose handler may fail on its own
HandleManagementFanoutLocal(w, fails) ==
    /\ wconn[w]
    /\ mgmtQ[w] # <<>>
    /\ mgmtQ' = [mgmtQ EXCEPT ![w] = Tail(@)]
    /\ Handled(w, "cache_updates", LocalDelivery(Head(mgmtQ[w]), fails), fails)
    /\ last' = Callback(w, "cache_updates", LocalDelivery(Head(mgmtQ[w]), fails), fails)
    /\ UNCHANGED <<procQ, legacyQ>>

\* a worker loses its connection: the broker deletes its exclusive queue
WorkerDrop(w) ==
    /\ wconn[w]
    /\ wdrops[w] < MaxDrops
    /\ wconn' = [wconn EXCEPT ![w] = FALSE]
    /\ wdrops' = [wdrops EXCEPT ![w] = @ + 1]
    /\ mgmtQ' = [mgmtQ EXCEPT ![w] = <<>>]
    /\ UNCHANGED <<client, cvars, lvars, avars, rvars, hvars, svars, bevars, bpvars, nextCid, replyQ, breplyQ, procQ, legacyQ, published, raws,
                   index, last>>

\* start_consuming catches AMQPConnectionError and _setup_connection succeeds:
\* _setup_consumers declares and binds a new exclusive queue
WorkerReconnect(w) ==
    /\ ~wconn[w]
    /\ wconn' = [wconn EXCEPT ![w] = TRUE]
    /\ mgmtQ' = [mgmtQ EXCEPT ![w] = <<>>]
    /\ UNCHANGED <<client, cvars, lvars, avars, rvars, hvars, svars, bevars, bpvars, nextCid, replyQ, breplyQ, procQ, legacyQ, published, raws,
                   wdrops, index, last>>

\* a foreign publisher puts a message on one of the consumed queues: a body
\* that is not JSON, or a task type no handler is registered for
ExternalPublish ==
    /\ raws < MaxRaw
    /\ raws' = raws + 1
    /\ \E ex \in {"face_tasks", "cache_updates", ""}, body \in {"json", "garbage"},
          p \in {<<NoCid, NoReply>>, <<NoCid, ExtQueue>>, <<ExtCid, ExtQueue>>} :
        LET m == [cid |-> p[1], reply_to |-> p[2], task |-> "bogus", beh |-> "ok", body |-> body]
        IN  /\ procQ' = ProcAfterPublish(ex, m)
            /\ legacyQ' = LegacyAfterPublish(ex, m)
            /\ mgmtQ' = MgmtAfterPublish(ex, m)
    /\ UNCHANGED <<client, cvars, lvars, avars, rvars, hvars, svars, bevars, bpvars, nextCid, replyQ, breplyQ, published, wvars>>

\* ------------------------------------------------------- FaceTaskHandler
Tenants == {"t1", "t2"}              \* company_id values
Users == {"u1", "u2"}                \* user_id values
FaceIds == 1..NumFaceIds             \* face_id values, in lexicographic order
NoFaceImage == 0                     \* an image in which no face is detected
Images == NoFaceImage..NumImages     \* image_base64 values
NoUser == "none"                     \* user_id = None

\* self.recognition_threshold (FACE_RECOGNITION_THRESHOLD, default 0.7), in tenths
RecognitionThreshold == 7

\* _calculate_real_similarity, in tenths: the cosine similarity of two
\* embeddings, clamped to [0, 1]; equal embeddings have similarity 1
CalculateRealSimilarity(embedding1, embedding2) ==
    IF embedding1 = embedding2 THEN 10
    ELSE IF embedding1 - embedding2 \in {-1, 1} THEN 8
    ELSE 3

\* __init__ with DATA_SOURCE=NONE: empty storage
EmptyCache == [companies |-> {}, users |-> << >>, faces |-> << >>, embeddings |-> << >>]
NoOp == [task |-> "none", company |-> "none", user |-> NoUser, face |-> 0, image |-> 0,
         status |-> "none", success |-> FALSE, user_id |-> NoUser, confidence |-> 0,
         face_ids |-> <<>>]

\* d[k] = v and del d[k] on a dict
DictSet(d, k, v) == [x \in DOMAIN d \cup {k} |-> IF x = k THEN v ELSE d[x]]
DictDel(d, ks) == [x \in DOMAIN d \ ks |-> d[x]]

\* the elements of a list, and a list without the elements that fail a test
ListItems(l) == {l[i] : i \in DOMAIN l}
RECURSIVE WithoutUser(_, _)
WithoutUser(rows, u) ==
    IF rows = <<>> THEN <<>>
    ELSE IF Head(rows).user_id # u THEN <<Head(rows)>> \o WithoutUser(Tail(rows), u)
    ELSE WithoutUser(Tail(rows), u)
\* (WithoutFaceMutant: a faulty filter that drops the oldest row)
WithoutFaceMutant(rows, f) == IF rows = <<>> THEN <<>> ELSE Tail(rows)
RECURSIVE WithoutFace(_, _)
WithoutFace(rows, f) ==
    IF rows = <<>> THEN <<>>
    ELSE IF Head(rows).face_id # f THEN <<Head(rows)>> \o WithoutFace(Tail(rows), f)
    ELSE WithoutFace(Tail(rows), f)
\* list.remove(x): the first occurrence only
RECURSIVE ListRemove(_, _)
ListRemove(l, x) ==
    IF l = <<>> THEN <<>>
    ELSE IF Head(l) = x THEN Tail(l)
    ELSE <<Head(l)>> \o ListRemove(Tail(l), x)

\* the response of a task: the storage after it, its status and its result
Response(c, status, fields) ==
    [cache |-> c, status |-> status,
     success |-> fields.success, user_id |-> fields.user_id,
     confidence |-> fields.confidence, face_ids |-> fields.face_ids]
NoFields == [success |-> FALSE, user_id |-> NoUser, confidence |-> 0, face_ids |-> <<>>]
Error(c) == Response(c, "error", NoFields)

\* _validate_and_decode_image and _detect_faces_in_image succeed
\* (FaceDetectedMutant: a faulty detection that accepts every image)
FaceDetectedMutant(img) == TRUE
FaceDetected(img) == img # NoFaceImage
\* _generate_embedding_with_alignment
GenerateEmbedding(img) == img

\* _handle_create_company
HandleCreateCompany(c, t) ==
    Response([c EXCEPT !.companies = @ \cup {t},
                       !.users = DictSet(@, t, << >>),
                       !.faces = DictSet(@, t, <<>>)],
             "success", [NoFields EXCEPT !.success = TRUE])

\* _handle_delete_company
HandleDeleteCompany(c, t) ==
    IF t \in c.companies
    THEN LET gone == IF t \in DOMAIN c.faces
                     THEN {r.face_id : r \in ListItems(c.faces[t])} ELSE {}
         IN  Response([companies |-> c.companies \ {t},
                       users |-> DictDel(c.users, {t}),
                       faces |-> DictDel(c.faces, {t}),
                       embeddings |-> DictDel(c.embeddings, gone)],
                      "success", [NoFields EXCEPT !.success = TRUE])
    ELSE Response(c, "success", [NoFields EXCEPT !.success = TRUE])

\* the row appended to self.faces[company_id]
FaceData(f, u) == [face_id |-> f, user_id |-> u]

\* _handle_create_user
HandleCreateUser(c, t, u, f, img) ==
    IF t \notin c.companies THEN Error(c)
    ELSE IF ~FaceDetected(img) THEN Error(c)
    ELSE LET users0 == IF t \in DOMAIN c.users THEN c.users ELSE DictSet(c.users, t, << >>)
             faces0 == IF t \in DOMAIN c.faces THEN c.faces ELSE DictSet(c.faces, t, <<>>)
         IN  Response([companies |-> c.companies,
                       users |-> [users0 EXCEPT ![t] = DictSet(@, u, <<f>>)],
                       faces |-> [faces0 EXCEPT ![t] = Append(@, FaceData(f, u))],
                       embeddings |-> DictSet(c.embeddings, f, GenerateEmbedding(img))],
                      "success", [NoFields EXCEPT !.success = TRUE, !.user_id = u])

\* _handle_delete_user
HandleDeleteUser(c, t, u) ==
    IF t \in DOMAIN c.users /\ u \in DOMAIN c.users[t]
    THEN Response([companies |-> c.companies,
                   users |-> [c.users EXCEPT ![t] = DictDel(@, {u})],
                   faces |-> IF t \in DOMAIN c.faces
                             THEN [c.faces EXCEPT ![t] = WithoutUser(@, u)]
                             ELSE c.faces,
                   embeddings |-> DictDel(c.embeddings, ListItems(c.users[t][u]))],
                  "success", [NoFields EXCEPT !.success = TRUE])
    ELSE Response(c, "success", NoFields)

\* _handle_add_face
HandleAddFace(c, t, u, f, img) ==
    IF ~(t \in DOMAIN c.users /\ u \in DOMAIN c.users[t]) THEN Error(c)
    ELSE IF ~FaceDetected(img) THEN Error(c)
    ELSE LET users1 == [c.users EXCEPT ![t][u] = Append(@, f)]
         IN  IF t \notin DOMAIN c.faces
             THEN \* self.faces[company_id] raises KeyError, reported by handle_task
                  Error([c EXCEPT !.users = users1])
             ELSE Response([companies |-> c.companies,
                            users |-> users1,
                            faces |-> [c.faces EXCEPT ![t] = Append(@, FaceData(f, u))],
                            embeddings |-> DictSet(c.embeddings, f, GenerateEmbedding(img))],
                           "success", [NoFields EXCEPT !.success = TRUE])

\* _handle_delete_face
HandleDeleteFace(c, t, u, f) ==
    LET listed == /\ t \in DOMAIN c.users
                  /\ u \in DOMAIN c.users[t]
                  /\ f \in ListItems(c.users[t][u])
    IN  Response([companies |-> c.companies,
                  users |-> IF listed THEN [c.users EXCEPT ![t][u] = ListRemove(@, f)]
                            ELSE c.users,
                  faces |-> IF t \in DOMAIN c.faces
                            THEN [c.faces EXCEPT ![t] = WithoutFace(@, f)]
                            ELSE c.faces,
                  embeddings |-> DictDel(c.embeddings, {f})],
                 "success", [NoFields EXCEPT !.success = (listed \/ f \in DOMAIN c.embeddings)])

\* the search loop of _handle_face_recognition over the rows of the company:
\* <<best_confidence, best_match>> after the rows, starting from best
RECURSIVE BestMatch(_, _, _, _)
BestMatch(rows, embeddings, query, best) ==
    IF rows = <<>> THEN best
    ELSE LET face_id == Head(rows).face_id
             confidence == CalculateRealSimilarity(query, embeddings[face_id])
         IN  IF face_id \in DOMAIN embeddings /\ confidence > best[1]
             THEN BestMatch(Tail(rows), embeddings, query, <<confidence, Head(rows).user_id>>)
             ELSE BestMatch(Tail(rows), embeddings, query, best)

\* best_confidence >= self.recognition_threshold
\* (AboveThresholdMutant: a faulty test that accepts every positive confidence)
AboveThresholdMutant(confidence) == confidence > 0
AboveThreshold(confidence) == confidence >= RecognitionThreshold

\* _handle_face_recognition
HandleFaceRecognition(c, t, img) ==
    IF t \notin c.companies THEN Error(c)
    ELSE IF ~FaceDetected(img) THEN Error(c)
    ELSE LET best == IF t \in DOMAIN c.faces
                     THEN BestMatch(c.faces[t], c.embeddings, GenerateEmbedding(img), <<0, NoUser>>)
                     ELSE <<0, NoUser>>
         IN  Response(c, "success",
                      [NoFields EXCEPT !.user_id = IF AboveThreshold(best[1]) THEN best[2] ELSE NoUser,
                                       !.confidence = best[1]])

\* _handle_face_embedding
HandleFaceEmbedding(c, img) ==
    IF ~FaceDetected(img) THEN Error(c)
    ELSE Response(c, "success", NoFields)

\* _handle_get_user_faces
HandleGetUserFaces(c, t, u) ==
    Response(c, "success",
             [NoFields EXCEPT !.face_ids = IF t \in DOMAIN c.users /\ u \in DOMAIN c.users[t]
                                           THEN c.users[t][u] ELSE <<>>])

\* handle_task: the storage and the response after one task, with the record
\* of who enrolled every stored embedding
Handle(task, t, u, f, img, r) ==
    /\ nops < MaxOps
    /\ nops' = nops + 1
    /\ cache' = r.cache
    /\ op' = [task |-> task, company |-> t, user |-> u, face |-> f, image |-> img,
              status |-> r.status, success |-> r.success, user_id |-> r.user_id,
              confidence |-> r.confidence, face_ids |-> r.face_ids]
    /\ owner' = [x \in DOMAIN r.cache.embeddings |->
                    IF task \in {"create_user", "add_face"} /\ r.status = "success" /\ x = f
                    THEN <<t, u>> ELSE owner[x]]
    /\ UNCHANGED <<client, cvars, lvars, avars, rvars, bevars, bpvars, brvars, wvars, svars>>

CreateCompany ==
    \E t \in Tenants : Handle("create_company", t, NoUser, 0, 0, HandleCreateCompany(cache, t))

DeleteCompany ==
    \E t \in Tenants : Handle("delete_company", t, NoUser, 0, 0, HandleDeleteCompany(cache, t))

CreateUser ==
    \E t \in Tenants, u \in Users, f \in FaceIds, img \in Images :
        Handle("create_user", t, u, f, img, HandleCreateUser(cache, t, u, f, img))

DeleteUser ==
    \E t \in Tenants, u \in Users :
        Handle("delete_user", t, u, 0, 0, HandleDeleteUser(cache, t, u))

AddFace ==
    \E t \in Tenants, u \in Users, f \in FaceIds, img \in Images :
        Handle("add_face", t, u, f, img, HandleAddFace(cache, t, u, f, img))

DeleteFace ==
    \E t \in Tenants, u \in Users, f \in FaceIds :
        Handle("delete_face", t, u, f, 0, HandleDeleteFace(cache, t, u, f))

FaceRecognition ==
    \E t \in Tenants, img \in Images :
        Handle("face_recognition", t, NoUser, 0, img, HandleFaceRecognition(cache, t, img))

GetUserFaces ==
    \E t \in Tenants, u \in Users :
        Handle("get_user_faces", t, u, 0, 0, HandleGetUserFaces(cache, t, u))

FaceEmbedding ==
    \E img \in Images :
        Handle("face_embedding", "none", NoUser, 0, img, HandleFaceEmbedding(cache, img))

\* ------------------------------------------------------ AdvertiseService
Trackers == 1..NumTrackers           \* requests running track_viewer concurrently

EmptyDb == [users |-> {}, faces |-> {}, sessions |-> <<>>, analytics |-> <<>>]
NoViewer == [org_id |-> "none", image |-> 0, status |-> "none", user_id |-> NoUser,
             is_new_user |-> FALSE]
NoSeen == [user_id |-> NoUser, org_id |-> "none", row |-> 0, visit_count |-> 0]

\* _ensure_org_exists: create_company on every call unless create_if_missing is false
EnsureOrgExists(c, org_id, create_if_missing) ==
    IF create_if_missing THEN HandleCreateCompany(c, org_id).cache ELSE c

\* the user and face identifiers present in the storage of the worker
IndexUsers(c) ==
    UNION {DOMAIN c.users[t] : t \in DOMAIN c.users}
        \cup UNION {{r.user_id : r \in ListItems(c.faces[t])} : t \in DOMAIN c.faces}
IndexFaces(c) ==
    DOMAIN c.embeddings
        \cup UNION {{r.face_id : r \in ListItems(c.faces[t])} : t \in DOMAIN c.faces}
        \cup UNION {UNION {ListItems(c.users[t][u]) : u \in DOMAIN c.users[t]} : t \in DOMAIN c.users}

\* uuid4 values for a new viewer and its face: values in use nowhere
FreshUsers == (Users \ {r.user_id : r \in db.users}) \ IndexUsers(cache)
FreshFaces == (FaceIds \ {r.face_id : r \in db.faces}) \ IndexFaces(cache)

\* the rows of a viewer that was recognized: user_service.get_by_user_id and
\* the first Face row of the user
FacesOf(user_id) == {r \in db.faces : r.user_id = user_id}

\* register_viewer, with the tasks it sends handled by the worker
RegisterViewer ==
    /\ nviewers < MaxViewers
    /\ nviewers' = nviewers + 1
    /\ \E org_id \in Tenants, img \in Images :
        LET c1 == EnsureOrgExists(cache, org_id, TRUE)
            rec == HandleFaceRecognition(c1, org_id, img)
            failed == [org_id |-> org_id, image |-> img, status |-> "InternalError",
                       user_id |-> NoUser, is_new_user |-> FALSE]
        IN  IF rec.status = "error"
            THEN \* recognize_face raised ProducerError
                 /\ cache' = c1
                 /\ viewer' = failed
                 /\ UNCHANGED db
            ELSE IF rec.user_id # NoUser
            THEN IF (\E r \in db.users : r.user_id = rec.user_id) /\ FacesOf(rec.user_id) # {}
                 THEN \E face \in FacesOf(rec.user_id) :
                      /\ cache' = c1
                      /\ db' = [db EXCEPT !.sessions =
                                   Append(@, [user_id |-> rec.user_id, face_id |-> face.face_id])]
                      /\ viewer' = [org_id |-> org_id, image |-> img, status |-> "success",
                                    user_id |-> rec.user_id, is_new_user |-> FALSE]
                 ELSE /\ cache' = c1
                      /\ viewer' = failed
                      /\ UNCHANGED db
            ELSE /\ FreshUsers # {}
                 /\ FreshFaces # {}
                 /\ LET user_id == CHOOSE u \in FreshUsers : TRUE
                        face_id == CHOOSE f \in FreshFaces : TRUE
                        made == HandleCreateUser(c1, org_id, user_id, face_id, img)
                    IN  /\ cache' = made.cache
                        /\ db' = [db EXCEPT
                                     !.users = @ \cup {[user_id |-> user_id, org_id |-> org_id]},
                                     !.faces = @ \cup {[face_id |-> face_id, user_id |-> user_id,
                                                        embedding |-> GenerateEmbedding(img)]},
                                     !.sessions = Append(@, [user_id |-> user_id, face_id |-> face_id])]
                        /\ viewer' = [org_id |-> org_id, image |-> img, status |-> "success",
                                      user_id |-> user_id, is_new_user |-> TRUE]
    /\ UNCHANGED <<client, cvars, lvars, avars, rvars, bevars, bpvars, brvars, wvars, owner, op, nops, tpc, seen, tracked, ntracks>>

\* str(user.id): the primary key of the User row with an external user_id
Pk(user_id) == IF user_id = "u1" THEN "pk1" ELSE "pk2"
Pks == {Pk(u) : u \in Users}

\* AuthService._ensure_org_exists: create_company when the organization has no
\* user in the database; "raise" when it has none and must not be created
AuthEnsureOrgExists(c, org_id, create_if_missing) ==
    IF \E r \in db.users : r.org_id = org_id THEN c
    ELSE IF create_if_missing THEN HandleCreateCompany(c, org_id).cache
    ELSE c

\* what a service call did, in program order: the messages it published to
\* the workers and the changes it committed to the database
\* (retry: the user had a row and no face when register was called; valid: the
\* image of the call shows a face)
NoCall == [service |-> "none", retry |-> FALSE, valid |-> FALSE, events |-> <<>>,
           outcome |-> "none"]
Published(what) == [kind |-> "publish", what |-> what]
Committed(what) == [kind |-> "commit", what |-> what]

\* how a call to the workers can end: handled and answered; not handled at
\* all (no connection, no worker), the producer raises; handled after the
\* producer has given up waiting and raised TimeoutError
Deliveries == {"ok", "lost", "late"}

\* AuthService.register, with the tasks it sends handled by the worker
AuthRegister ==
    \E org_id \in Tenants, user_id \in Users, img \in Images :
        LET c1 == AuthEnsureOrgExists(cache, org_id, TRUE)
            known == \E r \in db.users : r.user_id = user_id
            is_new_user == ~known
            users1 == db.users \cup {[user_id |-> user_id, org_id |-> org_id]}
            this == [NoCall EXCEPT !.service = "register",
                                   !.valid = FaceDetected(img),
                                   !.retry = /\ [user_id |-> user_id, org_id |-> org_id] \in db.users
                                             /\ FacesOf(user_id) = {}]
            first == IF is_new_user THEN <<Committed("user")>> ELSE <<>>
        IN  /\ FreshFaces # {}
            /\ IF known /\ [user_id |-> user_id, org_id |-> org_id] \notin db.users
               THEN \* get_by_user_id raised UserRelatedWithAnotherOrgError
                    /\ cache' = c1
                    /\ call' = [this EXCEPT !.outcome = "UserRelatedWithAnotherOrgError"]
                    /\ UNCHANGED db
               ELSE LET face_id == CHOOSE f \in FreshFaces : TRUE
                        made == IF is_new_user
                                THEN HandleCreateUser(c1, org_id, Pk(user_id), face_id, img)
                                ELSE HandleAddFace(c1, org_id, Pk(user_id), face_id, img)
                    IN  /\ cache' = made.cache
                        /\ IF made.status = "error"
                           THEN \* ProducerError: the user row is already committed
                                /\ db' = [db EXCEPT !.users = users1]
                                /\ call' = [this EXCEPT !.events = first \o <<Published("face")>>,
                                                        !.outcome = "InternalError"]
                           ELSE /\ db' = [db EXCEPT
                                          !.users = users1,
                                          !.faces = @ \cup {[face_id |-> face_id, user_id |-> user_id,
                                                             embedding |-> GenerateEmbedding(img)]}]
                                /\ call' = [this EXCEPT
                                              !.events = first \o <<Published("face"), Committed("face")>>,
                                              !.outcome = "success"]
            /\ UNCHANGED <<client, lvars, avars, rvars, bevars, bpvars, brvars, wvars, owner, op, nops,
                           viewer, nviewers, tpc, seen, tracked, ntracks>>

\* the rows that the deletion of a User row removes with it
RECURSIVE WithoutRowsOf(_, _)
WithoutRowsOf(rows, user_id) ==
    IF rows = <<>> THEN <<>>
    ELSE IF Head(rows).user_id # user_id THEN <<Head(rows)>> \o WithoutRowsOf(Tail(rows), user_id)
    ELSE WithoutRowsOf(Tail(rows), user_id)
DeleteUserRow(d, user_id) ==
    [users |-> {r \in d.users : r.user_id # user_id},
     faces |-> {r \in d.faces : r.user_id # user_id},
     sessions |-> WithoutRowsOf(d.sessions, user_id),
     analytics |-> WithoutRowsOf(d.analytics, user_id)]

\* UserService.delete, with the task it sends handled by the worker unless
\* the call is lost; a failure of the call is logged and the rows are deleted
UserDeleteVia(ds) ==
    \E row \in db.users, d \in ds :
        /\ cache' = IF d = "lost" THEN cache
                    ELSE HandleDeleteUser(cache, row.org_id, Pk(row.user_id)).cache
        /\ db' = DeleteUserRow(db, row.user_id)
        /\ call' = [NoCall EXCEPT !.service = "user_delete",
                                  !.events = <<Published("user"), Committed("user")>>,
                                  !.outcome = "success"]
        /\ UNCHANGED <<client, lvars, avars, rvars, bevars, bpvars, brvars, wvars, owner, op, nops,
                       viewer, nviewers, tpc, seen, tracked, ntracks>>

\* ... with every call handled and answered
UserDelete == UserDeleteVia({"ok"})

\* FaceService.delete, with the tasks it sends handled by the worker unless a
\* call is lost; a call that raises makes the service roll back and raise
FaceDeleteVia(ds) ==
    \E row \in db.users, face \in db.faces, d1 \in ds, d2 \in ds :
        /\ face.user_id = row.user_id
        /\ LET remaining_faces == Cardinality(FacesOf(row.user_id))
               user_deleted == remaining_faces <= 1
               c1 == IF d1 = "lost" THEN cache
                     ELSE HandleDeleteFace(cache, row.org_id, Pk(row.user_id), face.face_id).cache
               c2 == IF d2 = "lost" THEN c1
                     ELSE HandleDeleteUser(c1, row.org_id, Pk(row.user_id)).cache
               this == [NoCall EXCEPT !.service = "face_delete"]
           IN  IF d1 # "ok"
               THEN /\ d2 = "ok"
                    /\ cache' = c1
                    /\ call' = [this EXCEPT !.events = <<Published("face")>>,
                                            !.outcome = "InternalError"]
                    /\ UNCHANGED db
               ELSE IF user_deleted
               THEN /\ cache' = c2
                    /\ IF d2 # "ok"
                       THEN /\ call' = [this EXCEPT
                                          !.events = <<Published("face"), Published("user")>>,
                                          !.outcome = "InternalError"]
                            /\ UNCHANGED db
                       ELSE /\ call' = [this EXCEPT
                                          !.events = <<Published("face"), Published("user"),
                                                       Committed("face"), Committed("user")>>,
                                          !.outcome = "success"]
                            /\ db' = DeleteUserRow(db, row.user_id)
               ELSE /\ d2 = "ok"
                    /\ cache' = c1
                    /\ call' = [this EXCEPT !.events = <<Published("face"), Committed("face")>>,
                                            !.outcome = "success"]
                    /\ db' = [db EXCEPT !.faces = @ \ {face},
                                        !.sessions = WithoutFace(@, face.face_id)]
        /\ UNCHANGED <<client, lvars, avars, rvars, bevars, bpvars, brvars, wvars, owner, op, nops,
                       viewer, nviewers, tpc, seen, tracked, ntracks>>

\* ... with every call handled and answered
FaceDelete == FaceDeleteVia({"ok"})

\* the database without the users of an organization and their rows
DeleteOrgRows(d, org_id) ==
    LET gone == {r.user_id : r \in {x \in d.users : x.org_id = org_id}}
        Rest(rows) == SelectSeq(rows, LAMBDA r : r.user_id \notin gone)
    IN  [users |-> {r \in d.users : r.user_id \notin gone},
         faces |-> {r \in d.faces : r.user_id \notin gone},
         sessions |-> Rest(d.sessions),
         analytics |-> Rest(d.analytics)]

\* UserService.delete_org for an organization that has users, with the task
\* it sends handled by the worker unless the call is lost; a failure of the
\* call is logged and the rows are deleted
DeleteOrgVia(ds) ==
    \E org_id \in {r.org_id : r \in db.users}, d \in ds :
        /\ cache' = IF d = "lost" THEN cache ELSE HandleDeleteCompany(cache, org_id).cache
        /\ db' = DeleteOrgRows(db, org_id)
        /\ call' = [NoCall EXCEPT !.service = "delete_org",
                                  !.events = <<Published("org"), Committed("org")>>,
                                  !.outcome = "success"]
        /\ UNCHANGED <<client, lvars, avars, rvars, bevars, bpvars, brvars, wvars, owner, op, nops,
                       viewer, nviewers, tpc, seen, tracked, ntracks>>

\* the rows of a query in the order the database returns them
RECURSIVE QueryAll(_)
QueryAll(rows) ==
    IF rows = {} THEN <<>>
    ELSE LET x == CHOOSE x \in rows : TRUE IN <<x>> \o QueryAll(rows \ {x})

\* WorkerService.init_worker: the export of the database for a worker. Only
\* users with faces are exported, under str(user.id); an organization is
\* listed in users and faces when one of its users has a face.
InitWorker(d) ==
    LET withFaces == {r \in d.users : \E x \in d.faces : x.user_id = r.user_id}
        orgs == {r.org_id : r \in withFaces}
        facesOf(r) == QueryAll({x.face_id : x \in {y \in d.faces : y.user_id = r.user_id}})
        rowsOf(org) == {FaceData(x.face_id, Pk(x.user_id)) :
                           x \in {y \in d.faces : [user_id |-> y.user_id, org_id |-> org] \in d.users}}
    IN  [companies |-> {r.org_id : r \in d.users},
         users |-> [org \in orgs |->
                       [k \in {Pk(r.user_id) : r \in {x \in withFaces : x.org_id = org}} |->
                           facesOf(CHOOSE r \in withFaces : Pk(r.user_id) = k)]],
         faces |-> [org \in orgs |-> QueryAll(rowsOf(org))],
         embeddings |-> [f \in {x.face_id : x \in d.faces} |->
                            (CHOOSE x \in d.faces : x.face_id = f).embedding]]

\* _populate_cache: the storage is replaced by the parts of the export
PopulateCache(c, data) ==
    [companies |-> data.companies, users |-> data.users,
     faces |-> data.faces, embeddings |-> data.embeddings]

\* a worker starts with DATA_SOURCE=API: _load_from_api
Restart ==
    /\ cache' = PopulateCache(EmptyCache, InitWorker(db))
    /\ cache' # cache
    /\ UNCHANGED <<client, cvars, lvars, avars, rvars, bevars, bpvars, brvars, wvars, owner, op, nops, svars>>

\* the first Analytics row of a user in an organization: its position, 0 if none
FirstAnalytics(rows, user_id, org_id) ==
    LET hits == {i \in DOMAIN rows : rows[i].user_id = user_id /\ rows[i].org_id = org_id}
    IN  IF hits = {} THEN 0 ELSE CHOOSE i \in hits : \A j \in hits : i <= j

\* track_viewer up to the query of the Analytics row
TrackQuery(th) ==
    /\ tpc[th] = "idle"
    /\ ntracks < MaxTracks
    /\ ntracks' = ntracks + 1
    /\ \E org_id \in Tenants, img \in Images :
        LET c1 == EnsureOrgExists(cache, org_id, FALSE)
            rec == HandleFaceRecognition(c1, org_id, img)
            row == FirstAnalytics(db.analytics, rec.user_id, org_id)
        IN  IF /\ rec.status = "success"
               /\ rec.user_id # NoUser
               /\ \E r \in db.users : r.user_id = rec.user_id /\ r.org_id = org_id
            THEN /\ tpc' = [tpc EXCEPT ![th] = "commit"]
                 /\ seen' = [seen EXCEPT ![th] =
                        [user_id |-> rec.user_id, org_id |-> org_id, row |-> row,
                         visit_count |-> IF row = 0 THEN 0 ELSE db.analytics[row].visit_count]]
            ELSE \* the call raises, or reports that no face was recognized
                 UNCHANGED <<tpc, seen>>
    /\ UNCHANGED <<client, cvars, lvars, avars, rvars, bevars, bpvars, brvars, wvars, hvars, db, viewer, nviewers, tracked>>

\* track_viewer from the update of the Analytics row to the commit
TrackCommit(th) ==
    /\ tpc[th] = "commit"
    /\ db' = [db EXCEPT !.analytics =
                 IF seen[th].row = 0
                 THEN Append(@, [user_id |-> seen[th].user_id, org_id |-> seen[th].org_id,
                                 visit_count |-> 1])
                 ELSE [@ EXCEPT ![seen[th].row].visit_count = seen[th].visit_count + 1]]
    /\ tracked' = [tracked EXCEPT ![<<seen[th].user_id, seen[th].org_id>>] = @ + 1]
    /\ tpc' = [tpc EXCEPT ![th] = "idle"]
    /\ seen' = [seen EXCEPT ![th] = NoSeen]
    /\ UNCHANGED <<client, cvars, lvars, avars, rvars, bevars, bpvars, brvars, wvars, hvars, viewer, nviewers, ntracks>>

\* -------------------------------------------------------- get_analytics
\* Times are calendar days: get_analytics moves start_date to 00:00:00 and
\* end_date to 23:59:59.999999 of their days, so a session is in the period
\* exactly when its day is between the two days.
Days == 1..NumDays
Today == NumDays          \* the day of now_kst()
NoDate == 0               \* start_date or end_date not given (None)
DefaultDays == 7          \* timedelta(days=7) of the defaulted start_date
Durations == {60, 180}    \* ViewingSession.duration, in seconds

EmptyTables == [users |-> {}, sessions |-> <<>>, analytics |-> {}]
NoReport == [success |-> FALSE]

\* users: User rows, each user in one organization
UserTables ==
    {{[user_id |-> u, org_id |-> f[u]] : u \in S} : S \in SUBSET Users, f \in [Users -> Tenants]}

\* viewing_sessions: rows with their own primary key (the position in the
\* sequence) and a foreign key to users
SessionTables(us) ==
    UNION {[1..n -> [user_id : {r.user_id : r \in us}, day : Days, duration : Durations]] :
           n \in 0..MaxSessions}

\* analytics: at most one row for a user, in the user's organization
AnalyticsTables(us) ==
    {{[user_id |-> r.user_id, org_id |-> r.org_id,
       visit_count |-> g[r].visit_count, last_seen |-> g[r].last_seen] : r \in S} :
     S \in SUBSET us, g \in [us -> [visit_count : {1, 2}, last_seen : {1, NumDays}]]}

\* User.org_id == org_id
OrgUsers(t, org_id) == {r.user_id : r \in {x \in t.users : x.org_id = org_id}}

\* the sessions of the organization's users with lo <= start_time <= hi
SessionsIn(t, org_id, lo, hi) ==
    {i \in DOMAIN t.sessions :
        /\ t.sessions[i].user_id \in OrgUsers(t, org_id)
        /\ lo <= t.sessions[i].day
        /\ t.sessions[i].day <= hi}

\* count(distinct(ViewingSession.user_id)) is the size of this set
ViewersIn(t, org_id, lo, hi) == {t.sessions[i].user_id : i \in SessionsIn(t, org_id, lo, hi)}

RECURSIVE SumDuration(_, _)
SumDuration(t, ids) ==
    IF ids = {} THEN 0
    ELSE LET i == CHOOSE x \in ids : TRUE
         IN  t.sessions[i].duration + SumDuration(t, ids \ {i})

\* int((avg(duration) or 0) / 60): the average in whole minutes, truncated
ViewTimeMinutes(t, ids) ==
    IF ids = {} THEN 0 ELSE SumDuration(t, ids) \div (60 * Cardinality(ids))

\* int(a / b) for b > 0: the quotient truncated toward zero
TruncDiv(a, b) == IF a >= 0 THEN a \div b ELSE 0 - ((0 - a) \div b)

\* the three percentage differences: int(((curr - prev) / prev) * 100) when
\* prev > 0, else 0 or 100 (for the counts of this model the float product
\* and the exact quotient truncate to the same integer)
PercentDifference(curr, prev) ==
    IF prev > 0 THEN TruncDiv((curr - prev) * 100, prev)
    ELSE IF curr = 0 THEN 0 ELSE 100

\* func.min(ViewingSession.start_time) grouped by user
FirstSession(t, org_id, u) ==
    LET ds == {t.sessions[i].day : i \in {j \in DOMAIN t.sessions : t.sessions[j].user_id = u}}
    IN  CHOOSE d \in ds : \A e \in ds : d <= e

\* new viewers without the lower end of the period
NewViewersMutant(t, org_id, start, end) ==
    {u \in ViewersIn(t, org_id, 1, NumDays) : FirstSession(t, org_id, u) <= end}

\* users whose first session is in the period
NewViewers(t, org_id, start, end) ==
    {u \in ViewersIn(t, org_id, 1, NumDays) :
        /\ start <= FirstSession(t, org_id, u)
        /\ FirstSession(t, org_id, u) <= end}

\* Analytics rows of the organization with visit_count > 1 (all time)
Customers(t, org_id) ==
    {r.user_id : r \in {x \in t.analytics : x.org_id = org_id /\ x.visit_count > 1}}

\* ... and last_seen <= prev_end
PrevCustomers(t, org_id, prev_end) ==
    {r.user_id : r \in {x \in t.analytics :
        x.org_id = org_id /\ x.visit_count > 1 /\ x.last_seen <= prev_end}}

\* one entry for every day the while loop visits: current_date runs from
\* start_date.date() while current_date <= end_date.date()
DailyHistory(t, org_id, start, end) ==
    [i \in 1..(end - start + 1) |->
        LET d == start + i - 1
        IN  [date |-> d,
             viewers |-> Cardinality(ViewersIn(t, org_id, d, d)),
             customers |-> Cardinality(ViewersIn(t, org_id, d, d) \cap Customers(t, org_id)),
             average_view_time |-> ViewTimeMinutes(t, SessionsIn(t, org_id, d, d))]]

\* the dictionary get_analytics returns
Analytics(t, org_id, start_date, end_date) ==
    LET end == IF end_date = NoDate THEN Today ELSE end_date
        start == IF start_date = NoDate THEN end - DefaultDays ELSE start_date
        days == (end - start) + 1
        prev_start == start - days
        prev_end == start - 1
        current_period_viewers == Cardinality(ViewersIn(t, org_id, start, end))
        prev_total_viewers == Cardinality(ViewersIn(t, org_id, prev_start, prev_end))
        total_customers == Cardinality(Customers(t, org_id))
        prev_customers == Cardinality(PrevCustomers(t, org_id, prev_end))
        average_view_time == ViewTimeMinutes(t, SessionsIn(t, org_id, start, end))
        prev_avg_view_time == ViewTimeMinutes(t, SessionsIn(t, org_id, prev_start, prev_end))
    IN  [success |-> TRUE,
         org_id |-> org_id,
         start |-> start,
         end |-> end,
         days |-> days,
         total_viewers |-> Cardinality(OrgUsers(t, org_id)),
         difference_total_viewers_percentage |->
             PercentDifference(current_period_viewers, prev_total_viewers),
         total_new_viewers |-> Cardinality(NewViewers(t, org_id, start, end)),
         total_customers |-> total_customers,
         difference_total_customers_percentage |->
             PercentDifference(total_customers, prev_customers),
         average_view_time |-> average_view_time,
         difference_average_view_time |->
             PercentDifference(average_view_time, prev_avg_view_time),
         daily_history |-> DailyHistory(t, org_id, start, end)]

\* AdvertiseService.get_analytics(org_id, start_date, end_date), called by the
\* controller for a request: it only reads the database
GetAnalytics(org_id, start_date, end_date) ==
    /\ report = NoReport
    /\ report' = Analytics(tables, org_id, start_date, end_date)
    /\ UNCHANGED <<client, cvars, lvars, bevars, bpvars, brvars, wvars, hvars, svars, tables, rvars>>

\* the controller returns the result as the response of the request
ReturnAnalytics ==
    /\ report # NoReport
    /\ report' = NoReport
    /\ UNCHANGED <<client, cvars, lvars, bevars, bpvars, brvars, wvars, hvars, svars, tables, rvars>>

\* ----------------------------------------------------- _setup_connection
Components == {"producer", "consumer"}   \* MessageProducer, MessageConsumer
NoSetup == [pc |-> "idle", max_retries |-> 0, attempt |-> 0, attempts |-> 0,
            connected |-> FALSE, slept |-> <<>>]

\* 2 ** attempt
RECURSIVE Pow2(_)
Pow2(n) == IF n = 0 THEN 1 ELSE 2 * Pow2(n - 1)

\* _setup_connection is entered with config.max_retries
SetupBegin(k, max_retries) ==
    /\ setup[k].pc = "idle"
    /\ setup' = [setup EXCEPT ![k] = [NoSetup EXCEPT !.pc = "loop", !.max_retries = max_retries]]
    /\ UNCHANGED <<client, cvars, lvars, bevars, bpvars, brvars, wvars, hvars, svars, avars>>

\* one turn of `for attempt in range(max_retries)`: the range is exhausted and
\* the method falls off its end, or the attempt connects and returns, or it
\* fails and sleeps retry_delay * 2 ** attempt, or it fails for the last time
\* and raises
SetupAttempt(k, ok) ==
    LET s == setup[k] IN
    /\ s.pc = "loop"
    /\ setup' = [setup EXCEPT ![k] =
          IF s.attempt >= s.max_retries
          THEN [s EXCEPT !.pc = "returned"]
          ELSE IF ok
          THEN [s EXCEPT !.pc = "returned", !.attempts = @ + 1, !.connected = TRUE]
          ELSE IF s.attempt < s.max_retries - 1
          THEN [s EXCEPT !.attempt = @ + 1, !.attempts = @ + 1,
                         !.slept = Append(@, Pow2(s.attempt))]
          ELSE [s EXCEPT !.pc = "raised", !.attempts = @ + 1]]
    /\ UNCHANGED <<client, cvars, lvars, bevars, bpvars, brvars, wvars, hvars, svars, avars>>

\* ------------------------------------------ MessageConsumer.start_consuming
\* the three queues _setup_consumers subscribes to; "mgmt" stands for the
\* exclusive queue bound to cache_updates
Subscriptions == {"face_processing_tasks", "mgmt", "face_management_tasks"}

\* the consumer after FaceWorker.initialize: __init__ has connected and
\* subscribed (management_queue 1 is the first exclusive queue), and the
\* FaceTaskHandler is registered for its task types
NewConsumer ==
    [pc |-> "init", is_running |-> FALSE, shutdown_event |-> FALSE,
     connection |-> "open", channel |-> "open", subs |-> Subscriptions,
     management_queue |-> 1, bound |-> TRUE, task_handlers |-> SupportedTasks,
     inflight |-> FALSE, unacked |-> 0, handed |-> 0]

\* the broker: reachable or not, how often it dropped the connection, the
\* deliveries it has ready for the consumer, the exclusive queues it has named
NewBroker == [up |-> TRUE, drops |-> 0, ready |-> 0, arrived |-> 0, queues |-> 1]

\* a handler that closed the connection itself
SignalHandlerMutant(c) ==
    [c EXCEPT !.shutdown_event = TRUE, !.connection = "closed", !.channel = "closed"]

\* _signal_handler and stop_consuming: set the event, nothing else
SignalHandler(c) == [c EXCEPT !.shutdown_event = TRUE]

\* _setup_consumers on a new channel that subscribes to the old exclusive
\* queue name instead of declaring a new one
SetupConsumersMutant(c, q) ==
    [c EXCEPT !.connection = "open", !.channel = "open",
              !.subs = Subscriptions \ {"mgmt"}, !.bound = FALSE, !.unacked = 0]

\* _setup_connection succeeded: new connection and channel, basic_qos, and
\* _setup_consumers: basic_consume on face_processing_tasks, queue_declare of
\* a new exclusive queue q, queue_bind to cache_updates, basic_consume on it,
\* basic_consume on face_management_tasks. task_handlers is not touched.
SetupConsumers(c, q) ==
    [c EXCEPT !.connection = "open", !.channel = "open", !.subs = Subscriptions,
              !.management_queue = q, !.bound = TRUE, !.unacked = 0]

\* start_consuming is entered
StartConsuming ==
    /\ cons.pc = "init"
    /\ cons' = [cons EXCEPT !.pc = "loop", !.is_running = TRUE]
    /\ UNCHANGED <<client, cvars, bevars, bpvars, brvars, wvars, hvars, svars, avars, rvars, broker>>

\* SIGTERM, SIGINT or stop_consuming, at any point of the run
Signal ==
    /\ cons.pc # "stopped"
    /\ ~cons.shutdown_event
    /\ cons' = SignalHandler(cons)
    /\ UNCHANGED <<client, cvars, bevars, bpvars, brvars, wvars, hvars, svars, avars, rvars, broker>>

\* while self.is_running and not self.shutdown_event.is_set()
LoopTest ==
    /\ cons.pc = "loop"
    /\ cons' = [cons EXCEPT !.pc = IF cons.is_running /\ ~cons.shutdown_event
                                   THEN "events" ELSE "shutdown"]
    /\ UNCHANGED <<client, cvars, bevars, bpvars, brvars, wvars, hvars, svars, avars, rvars, broker>>

\* process_data_events hands the next delivery to its callback (prefetch_count
\* is 1: no delivery while one is unacknowledged)
DispatchDelivery ==
    /\ cons.pc = "events"
    /\ cons.connection = "open"
    /\ cons.subs # {}
    /\ cons.unacked = 0
    /\ broker.ready > 0
    /\ broker' = [broker EXCEPT !.ready = @ - 1]
    /\ cons' = [cons EXCEPT !.pc = "handling", !.inflight = TRUE, !.unacked = 1,
                            !.handed = @ + 1]
    /\ UNCHANGED <<client, cvars, bevars, bpvars, brvars, wvars, hvars, svars, avars, rvars>>

\* the callback returns: on an open channel it has settled the delivery
\* (basic_ack, or basic_nack after an exception); on a lost connection
\* basic_ack and basic_nack raise, and the exception leaves
\* process_data_events into one of the except branches of the loop
HandlerDone ==
    /\ cons.pc = "handling"
    /\ \/ /\ cons.connection = "open"
          /\ cons' = [cons EXCEPT !.pc = "events", !.inflight = FALSE, !.unacked = 0]
       \/ /\ cons.connection # "open"
          /\ \E next \in {"loop", "reconnect"} :
                cons' = [cons EXCEPT !.pc = next, !.inflight = FALSE]
    /\ UNCHANGED <<client, cvars, bevars, bpvars, brvars, wvars, hvars, svars, avars, rvars, broker>>

\* process_data_events returns after its time limit, or raises
\* AMQPConnectionError on a connection that is lost
EventsReturn ==
    /\ cons.pc = "events"
    /\ cons' = [cons EXCEPT !.pc = IF cons.connection = "open" THEN "loop" ELSE "reconnect"]
    /\ UNCHANGED <<client, cvars, bevars, bpvars, brvars, wvars, hvars, svars, avars, rvars, broker>>

\* except AMQPConnectionError: _setup_connection (max_retries >= 1). With the
\* broker reachable it connects and subscribes; otherwise every attempt fails,
\* the error is logged and the loop goes on after time.sleep(5.0)
Reconnect ==
    /\ cons.pc = "reconnect"
    /\ IF broker.up
       THEN /\ cons' = [SetupConsumers(cons, broker.queues + 1) EXCEPT !.pc = "loop"]
            /\ broker' = [broker EXCEPT !.queues = @ + 1]
       ELSE /\ cons' = [cons EXCEPT !.pc = "loop"]
            /\ UNCHANGED broker
    /\ UNCHANGED <<client, cvars, bevars, bpvars, brvars, wvars, hvars, svars, avars, rvars>>

\* finally: _shutdown. stop_consuming cancels the consumers of an open
\* channel (deliveries not yet handed over go back to the queue), and close
\* closes an open connection
Shutdown ==
    /\ cons.pc = "shutdown"
    /\ cons' = [cons EXCEPT !.pc = "stopped", !.is_running = FALSE, !.subs = {},
                            !.connection = IF @ = "open" THEN "closed" ELSE @,
                            !.channel = IF @ = "open" THEN "closed" ELSE @]
    /\ UNCHANGED <<client, cvars, bevars, bpvars, brvars, wvars, hvars, svars, avars, rvars, broker>>

\* the broker goes away: the connection is lost, the exclusive queue is
\* deleted, and the unacknowledged delivery is ready again
ConnectionLost ==
    /\ broker.up
    /\ broker.drops < MaxDrops
    /\ broker' = [broker EXCEPT !.up = FALSE, !.drops = @ + 1,
                                !.ready = @ + (IF cons.connection = "open" THEN cons.unacked ELSE 0)]
    /\ cons' = IF cons.connection = "open"
               THEN [cons EXCEPT !.connection = "lost", !.channel = "lost", !.subs = {},
                                 !.bound = FALSE]
               ELSE cons
    /\ UNCHANGED <<client, cvars, bevars, bpvars, brvars, wvars, hvars, svars, avars, rvars>>

\* the broker is reachable again
BrokerUp ==
    /\ ~broker.up
    /\ broker' = [broker EXCEPT !.up = TRUE]
    /\ UNCHANGED <<client, cvars, bevars, bpvars, brvars, wvars, hvars, svars, avars, rvars, cons>>

\* a producer publishes a task that is routed to the consumer
Arrive ==
    /\ broker.up
    /\ broker.arrived < MaxCalls
    /\ broker' = [broker EXCEPT !.ready = @ + 1, !.arrived = @ + 1]
    /\ UNCHANGED <<client, cvars, bevars, bpvars, brvars, wvars, hvars, svars, avars, rvars, cons>>

\* ------------------------------------------------------------------- spec
\* the state after construction, the database of get_analytics apart
InitProgram ==
    /\ client \in {"backend", "broker"}
    /\ connection = [id |-> 1, is_closed |-> FALSE]
    /\ pending_responses = << >>
    /\ pc = [c \in Callers |-> "idle"]
    /\ cid = [c \in Callers |-> NoCid]
    /\ wait = [c \in Callers |-> FALSE]
    /\ elapsed = [c \in Callers |-> 0]
    /\ result = [c \in Callers |-> NoResult]
    /\ reset = [c \in Callers |-> FALSE]
    /\ bconnection = [id |-> 1, is_closed |-> FALSE]
    /\ bpc = "idle"
    /\ bcid = NoCid
    /\ bwait = FALSE
    /\ belapsed = 0
    /\ bresult = NoResult
    /\ nextCid = 0
    /\ replyQ = <<>>
    /\ breplyQ = <<>>
    /\ procQ = <<>>
    /\ legacyQ = <<>>
    /\ mgmtQ = [w \in Workers |-> <<>>]
    /\ published = {}
    /\ raws = 0
    /\ wconn = [w \in Workers |-> TRUE]
    /\ wdrops = [w \in Workers |-> 0]
    /\ index = [w \in Workers |-> {}]
    /\ last = NoLast
    /\ cache = EmptyCache
    /\ owner = << >>
    /\ op = NoOp
    /\ nops = 0
    /\ db = EmptyDb
    /\ viewer = NoViewer
    /\ nviewers = 0
    /\ tpc = [th \in Trackers |-> "idle"]
    /\ seen = [th \in Trackers |-> NoSeen]
    /\ tracked = [p \in Users \X Tenants |-> 0]
    /\ ntracks = 0
    /\ report = NoReport
    /\ setup = [k \in Components |-> NoSetup]
    /\ call = NoCall
    /\ cons = NewConsumer
    /\ broker = NewBroker

Init == InitProgram /\ tables = EmptyTables

\* the control plane with one of the two producers, and the workers
Next ==
    \/ \E c \in Callers : Call(c)
    \/ \E c \in Callers : Publish(c)
    \/ \E c \in Callers : Poll(c)
    \/ Drop
    \/ BCall
    \/ BPublish
    \/ BPoll
    \/ BDrop
    \/ \E w \in Workers, exc \in BOOLEAN : HandleProcessingTask(w, exc) /\ UNCHANGED last
    \/ \E w \in Workers, exc \in BOOLEAN : HandleManagementFanout(w, exc) /\ UNCHANGED last
    \/ \E w \in Workers, exc \in BOOLEAN : HandleManagementDirect(w, exc) /\ UNCHANGED last

Spec == Init /\ [][Next]_vars

\* every caller thread and the broker producer keep running their wait loop
FairSpec == Spec /\ (\A c \in Callers : WF_vars(Poll(c))) /\ WF_vars(BPoll)

\* the consumer callbacks under observation, fed by the broker producer and
\* by foreign publishers
InitConsumer == Init /\ client = "broker"

NextConsumer ==
    \/ BCall
    \/ BPublish
    \/ BPoll
    \/ ExternalPublish
    \/ \E w \in Workers, exc \in BOOLEAN :
           HandleProcessingTask(w, exc) /\ Observe(w, "face_processing_tasks", procQ, exc)
    \/ \E w \in Workers, exc \in BOOLEAN :
           HandleManagementFanout(w, exc) /\ Observe(w, "cache_updates", mgmtQ[w], exc)
    \/ \E w \in Workers, exc \in BOOLEAN :
           HandleManagementDirect(w, exc) /\ Observe(w, "face_management_tasks", legacyQ, exc)

SpecConsumer == InitConsumer /\ [][NextConsumer]_vars

\* the fan-out of mutations to workers that lose and re-establish their connection
NextFanout ==
    \/ BCall
    \/ BPublish
    \/ BPoll
    \/ \E w \in Workers, exc \in BOOLEAN : HandleProcessingTask(w, exc) /\ UNCHANGED last
    \/ \E w \in Workers, exc \in BOOLEAN : HandleManagementFanout(w, exc) /\ UNCHANGED last
    \/ \E w \in Workers, exc \in BOOLEAN : HandleManagementDirect(w, exc) /\ UNCHANGED last
    \/ \E w \in Workers : WorkerDrop(w)
    \/ \E w \in Workers : WorkerReconnect(w)

SpecFanout == InitConsumer /\ [][NextFanout]_vars

\* the FaceTaskHandler of one worker handling a sequence of tasks
InitIndex == Init /\ client = "backend"

NextIndex ==
    \/ CreateCompany
    \/ DeleteCompany
    \/ CreateUser
    \/ DeleteUser
    \/ AddFace
    \/ DeleteFace
    \/ FaceRecognition
    \/ GetUserFaces
    \/ FaceEmbedding

SpecIndex == InitIndex /\ [][NextIndex]_vars

\* the backend producer and workers whose handlers fail independently
NextLocal ==
    \/ \E c \in Callers : Call(c)
    \/ \E c \in Callers : Publish(c)
    \/ \E c \in Callers : Poll(c)
    \/ \E w \in Workers, exc \in BOOLEAN : HandleProcessingTask(w, exc) /\ UNCHANGED last
    \/ \E w \in Workers, fails \in BOOLEAN : HandleManagementFanoutLocal(w, fails)

SpecLocal == InitIndex /\ [][NextLocal]_vars

\* the backend service with concurrent track_viewer requests and one worker
NextViewer ==
    \/ RegisterViewer
    \/ \E th \in Trackers : TrackQuery(th)
    \/ \E th \in Trackers : TrackCommit(th)

SpecViewer == InitIndex /\ [][NextViewer]_vars

\* the control-plane paths that enrol and delete users, and one worker
NextPaths ==
    \/ AuthRegister
    \/ RegisterViewer
    \/ UserDelete
    \/ FaceDelete
    \/ Restart

SpecPaths == InitIndex /\ [][NextPaths]_vars

\* get_analytics over every database of the bounds
InitAnalytics ==
    /\ InitProgram
    /\ client = "backend"
    /\ \E us \in UserTables : \E ss \in SessionTables(us) : \E an \in AnalyticsTables(us) :
          tables = [users |-> us, sessions |-> ss, analytics |-> an]

NextAnalytics ==
    \/ \E org_id \in Tenants, start_date \in Days \cup {NoDate}, end_date \in Days \cup {NoDate} :
          GetAnalytics(org_id, start_date, end_date)
    \/ ReturnAnalytics

SpecAnalytics == InitAnalytics /\ [][NextAnalytics]_vars

\* the connection retry loops of the producer and the consumer
NextSetup ==
    \/ \E k \in Components, n \in 0..MaxRetries : SetupBegin(k, n)
    \/ \E k \in Components, ok \in BOOLEAN : SetupAttempt(k, ok)

SpecSetup == InitIndex /\ [][NextSetup]_vars

\* one consumer from start_consuming to the end of _shutdown
NextLifecycle ==
    \/ StartConsuming
    \/ Signal
    \/ LoopTest
    \/ DispatchDelivery
    \/ HandlerDone
    \/ EventsReturn
    \/ Reconnect
    \/ Shutdown
    \/ ConnectionLost
    \/ BrokerUp
    \/ Arrive

SpecLifecycle == InitIndex /\ [][NextLifecycle]_vars

\* the consumer's own steps are taken when they stay possible (the handlers
\* return), and a broker that went away comes back
FairLifecycle ==
    /\ SpecLifecycle
    /\ WF_vars(StartConsuming)
    /\ WF_vars(LoopTest)
    /\ WF_vars(HandlerDone)
    /\ WF_vars(EventsReturn)
    /\ WF_vars(Reconnect)
    /\ WF_vars(Shutdown)
    /\ WF_vars(BrokerUp)

\* the services that change the faces of the store and of the workers
NextStore ==
    \/ AuthRegister
    \/ FaceDeleteVia(Deliveries)
    \/ UserDeleteVia(Deliveries)
    \/ DeleteOrgVia(Deliveries)

SpecStore == InitIndex /\ [][NextStore]_vars

\* ----------------------------------------------------------------- claims
\* C1: whatever the number of concurrent waiting calls and the order of the
\* replies, what _send_message hands to a caller (a response or a worker
\* error) carries the correlation_id this call generated.
C1_ReplyMatchesCall ==
    \A c \in Callers :
        (pc[c] = "done" /\ result[c].message \in {"none", "Worker error"})
            => result[c].cid = cid[c]

\* the later call has its response while the earlier one is still waiting
C1_Witness ==
    \E c, d \in Callers :
        /\ pc[c] = "done" /\ result[c].kind = "response"
        /\ pc[d] = "waiting" /\ cid[d] < cid[c]

\* C2: pending_responses holds exactly the correlation_ids of the calls in
\* flight with wait_for_response=true; it is empty when no call is in flight.
C2_PendingIsInFlight ==
    DOMAIN pending_responses =
        {cid[c] : c \in {d \in Callers : wait[d] /\ pc[d] \in {"publish", "waiting"}}}

\* a call has timed out, another has failed on the connection, nothing is left
C2_Witness ==
    \E c, d \in Callers :
        /\ pc[c] = "done" /\ result[c].message = "Request timed out"
        /\ pc[d] = "done" /\ result[d].message = "connection closed"
        /\ DOMAIN pending_responses = {}

\* C3: every waiting call terminates, in both producers: the wait loop of a
\* call never runs more than the timeout plus one polling step, and (the
\* number of calls being bounded) from some point on no call is waiting.
C3_CallsTerminate ==
    /\ [](/\ belapsed <= TimeoutSteps + 1
          /\ \A c \in Callers : elapsed[c] <= TimeoutSteps + 1)
    /\ <>[](/\ bpc # "waiting"
            /\ \A c \in Callers : pc[c] # "waiting")

\* a call whose task nobody ever handled has ended at the deadline
C3_Witness ==
    \E c \in Callers :
        /\ pc[c] = "done" /\ result[c].message = "Request timed out"
        /\ elapsed[c] = TimeoutSteps + 1
        /\ \E i \in DOMAIN procQ : procQ[i].cid = cid[c]

\* C4: a call that got no reply before the deadline fails with the Timeout
\* error kind (the class TimeoutError), in both producers.
C4_TimeoutKind ==
    /\ \A c \in Callers :
           (pc[c] = "done" /\ result[c].message = "Request timed out")
               => result[c].kind = "TimeoutError"
    /\ (bpc = "done" /\ bresult.message = "Request timed out") => bresult.kind = "TimeoutError"

\* C5: a reply whose call has exited is discarded. In the backend producer an
\* entry of pending_responses appears only for the correlation_id a call has
\* just generated, and a slot only ever holds replies with its own
\* correlation_id; the broker producer only returns a reply that carries the
\* correlation_id of the call that is waiting.
C5_LateReplyDiscarded ==
    [][ /\ \A k \in DOMAIN pending_responses' :
               \/ k \in DOMAIN pending_responses
               \/ (k = nextCid' /\ nextCid' # nextCid)
        /\ \A k \in DOMAIN pending_responses' :
               \A i \in 1..Len(pending_responses'[k]) : pending_responses'[k][i].cid = k
        /\ (bpc = "waiting" /\ bpc' = "done" /\ bresult'.message \in {"none", "Worker error"})
               => bresult'.cid = bcid ]_vars

\* the reply to a call that timed out is in the reply queue while a later call waits
C5_Witness ==
    /\ bpc = "waiting"
    /\ breplyQ # <<>>
    /\ Head(breplyQ).cid < bcid

\* C6: a call that was waiting when the connection dropped does not go on
\* waiting: its next polling iteration ends it, and unless its deadline had
\* already passed it ends with the connection error; also when another
\* caller has reconnected the producer in between.
C6_BusReset ==
    [][ \A c \in Callers :
            (reset[c] /\ pc[c] = "waiting") =>
                /\ elapsed'[c] = elapsed[c]
                /\ (pc'[c] = "done" /\ elapsed[c] <= TimeoutSteps)
                       => result'[c].message = "connection closed" ]_vars

C10_Convergence ==
    (\A w \in Workers : wconn[w] /\ mgmtQ[w] = <<>>)
        => \A w \in Workers : published \subseteq index[w]

\* C11: create_company and delete_company are idempotent: create_company on a
\* company that exists leaves the storage as it is, and a second
\* delete_company leaves the storage as the first one left it.
C11_Idempotent ==
    \A t \in Tenants :
        /\ t \in cache.companies => HandleCreateCompany(cache, t).cache = cache
        /\ HandleDeleteCompany(HandleDeleteCompany(cache, t).cache, t).cache
               = HandleDeleteCompany(cache, t).cache

\* the viewers register_viewer has enrolled in an organization with an image
EnrolledFor(org_id, img) ==
    {r.user_id : r \in {x \in db.faces : /\ x.embedding = GenerateEmbedding(img)
                                         /\ [user_id |-> x.user_id, org_id |-> org_id] \in db.users}}

\* C12: once register_viewer has enrolled a new viewer for a face in an
\* organization, a later register_viewer call with the same face and the same
\* organization succeeds as that user, creates no user and adds one viewing session.
C12_ViewerReused ==
    [][(nviewers' # nviewers /\ EnrolledFor(viewer'.org_id, viewer'.image) # {})
          => /\ viewer'.status = "success"
             /\ ~viewer'.is_new_user
             /\ viewer'.user_id \in EnrolledFor(viewer'.org_id, viewer'.image)
             /\ db'.users = db.users
             /\ Len(db'.sessions) = Len(db.sessions) + 1]_vars

\* the user is present in the tenant in storage c
UserExists(c, t, u) == t \in DOMAIN c.users /\ u \in DOMAIN c.users[t]

\* C13: create_user on a user that already exists in the tenant keeps the
\* faces attached to the user: get_user_faces still lists every face it listed
\* before, and lists the new face.
C13_CreateUserKeepsFaces ==
    [][(/\ nops' # nops
        /\ op'.task = "create_user"
        /\ op'.status = "success"
        /\ UserExists(cache, op'.company, op'.user))
          => /\ ListItems(HandleGetUserFaces(cache, op'.company, op'.user).face_ids)
                   \subseteq ListItems(HandleGetUserFaces(cache', op'.company, op'.user).face_ids)
             /\ op'.face \in ListItems(HandleGetUserFaces(cache', op'.company, op'.user).face_ids)]_vars

\* C14: after a successful delete_user the tenant's face list holds no face of
\* that user, and no embedding stored by an enrolment of that user in that
\* tenant is left.
C14_DeleteUserCascades ==
    (op.task = "delete_user" /\ op.success)
        => /\ op.company \in DOMAIN cache.faces
                => \A r \in ListItems(cache.faces[op.company]) : r.user_id # op.user
           /\ \A f \in DOMAIN cache.embeddings : owner[f] # <<op.company, op.user>>

\* C15: after delete_company the worker holds no users and no faces of the
\* tenant, and no embedding stored by an enrolment under that tenant.
C15_DeleteCompanyReleases ==
    op.task = "delete_company"
        => /\ op.company \notin cache.companies
           /\ op.company \notin DOMAIN cache.users
           /\ op.company \notin DOMAIN cache.faces
           /\ \A f \in DOMAIN cache.embeddings : owner[f][1] # op.company

\* C16: a tenant's face list never holds two rows with the same face_id:
\* an insert of a face_id that the tenant already holds is refused.
C16_NoDuplicateFaceId ==
    \A t \in DOMAIN cache.faces :
        \A i, j \in DOMAIN cache.faces[t] :
            cache.faces[t][i].face_id = cache.faces[t][j].face_id => i = j

\* C17: whenever face_recognition for a tenant returns a user, a face row of
\* that user in the tenant's face list has a stored embedding whose similarity
\* with the query embedding is the returned confidence, and that confidence is
\* at least the recognition threshold.
C17_RecognizedAboveThreshold ==
    (op.task = "face_recognition" /\ op.user_id # NoUser)
        => /\ op.status = "success"
           /\ op.company \in DOMAIN cache.faces
           /\ op.confidence >= RecognitionThreshold
           /\ \E r \in ListItems(cache.faces[op.company]) :
                /\ r.user_id = op.user_id
                /\ r.face_id \in DOMAIN cache.embeddings
                /\ CalculateRealSimilarity(GenerateEmbedding(op.image),
                                           cache.embeddings[r.face_id]) = op.confidence

\* a user was recognized from an image that differs from the enrolled one
C17_Witness ==
    /\ op.task = "face_recognition"
    /\ op.user_id # NoUser
    /\ op.confidence = 8

\* C18: face_recognition of an image with a face, for a tenant that is absent
\* from the index or that has no faces, is answered with the result
\* user_id = none and confidence = 0.
C18_AbsentOrEmptyTenant ==
    (/\ op.task = "face_recognition"
     /\ FaceDetected(op.image)
     /\ \/ op.company \notin cache.companies
        \/ op.company \notin DOMAIN cache.faces
        \/ cache.faces[op.company] = <<>>)
        => /\ op.status = "success"
           /\ op.user_id = NoUser
           /\ op.confidence = 0

\* the rows of a tenant whose stored embedding has the highest similarity with the query
TopRows(c, t, query) ==
    LET rows == {r \in ListItems(c.faces[t]) : r.face_id \in DOMAIN c.embeddings}
        score(r) == CalculateRealSimilarity(query, c.embeddings[r.face_id])
    IN  {r \in rows : \A x \in rows : score(x) <= score(r)}

\* C19: when several faces of the tenant share the highest similarity with the
\* query, face_recognition returns the user of the face with the smallest
\* face_id among them, whatever the order of insertion.
C19_TieBreakBySmallestFaceId ==
    (op.task = "face_recognition" /\ op.user_id # NoUser)
        => \E r \in TopRows(cache, op.company, GenerateEmbedding(op.image)) :
              /\ r.user_id = op.user_id
              /\ \A x \in TopRows(cache, op.company, GenerateEmbedding(op.image)) :
                    r.face_id <= x.face_id

\* the positions of the Analytics rows of a user in an organization
AnalyticsRows(user_id, org_id) ==
    {i \in DOMAIN db.analytics :
        db.analytics[i].user_id = user_id /\ db.analytics[i].org_id = org_id}

\* C20: every user has at most one Analytics row in an organization, and once
\* the track_viewer requests that detected the user have committed, the
\* visit_count of that row is the number of those detections.
C20_VisitCountExact ==
    \A user_id \in Users, org_id \in Tenants :
        /\ Cardinality(AnalyticsRows(user_id, org_id)) <= 1
        /\ (\A th \in Trackers :
                tpc[th] = "commit" => <<seen[th].user_id, seen[th].org_id>> # <<user_id, org_id>>)
              => IF tracked[<<user_id, org_id>>] = 0
                 THEN AnalyticsRows(user_id, org_id) = {}
                 ELSE \E i \in AnalyticsRows(user_id, org_id) :
                         db.analytics[i].visit_count = tracked[<<user_id, org_id>>]

\* C21: every control-plane path names a user to the worker by the external
\* user_id: every user key and every face row of the worker's index carries
\* an external user_id.
C21_OneIdentifierSpace == IndexUsers(cache) \subseteq Users

\* a waiting call of a caller has returned for a mutation that one worker
\* applied and that the worker handled last refused
MixedOutcome(c) ==
    /\ pc[c] = "done"
    /\ wait[c]
    /\ result[c].kind \in {"response", "ProducerError"}
    /\ result[c].message \in {"none", "Worker error"}
    /\ last.queue = "cache_updates"
    /\ last.msg.cid = cid[c]
    /\ last.response = "error"
    /\ \E w \in Workers : cid[c] \in index[w]

\* C22: a fan-out mutation that succeeds on one worker and fails on another
\* is reported to the caller with a degraded status, whichever reply came first.
C22_DegradedSurfaced ==
    \A c \in Callers : MixedOutcome(c) => result[c].kind = "degraded"

IndexView(c) ==
    [companies |-> c.companies,
     users |-> UNION {{<<t, u, ListItems(c.users[t][u])>> : u \in DOMAIN c.users[t]} :
                         t \in DOMAIN c.users},
     faces |-> UNION {{<<t, r>> : r \in ListItems(c.faces[t])} : t \in DOMAIN c.faces},
     embeddings |-> c.embeddings]

\* C24: the export of the control plane, loaded into an empty worker, gives
\* the index that the worker has built from the mutations it applied: the same
\* tenants, users under the same identifiers, faces and embeddings.
C24_SnapshotRestores ==
    IndexView(PopulateCache(EmptyCache, InitWorker(db))) = IndexView(cache)

\* the tasks that need a face in their image
FaceTasks == {"create_user", "add_face", "face_recognition", "face_embedding"}

\* C25: create_user, add_face, face_recognition and face_embedding on an image
\* in which no face is detected are answered with an error, never with a
\* success result, and leave the index unchanged.
C25_NoFaceIsError ==
    [][(nops' # nops /\ op'.task \in FaceTasks /\ op'.image = NoFaceImage)
          => /\ op'.status = "error"
             /\ ~op'.success
             /\ op'.user_id = NoUser
             /\ cache' = cache]_vars

\* add_face with an image without a face was refused for a user that exists
C25_Witness ==
    /\ op.task = "add_face"
    /\ op.image = NoFaceImage
    /\ UserExists(cache, op.company, op.user)
    /\ op.status = "error"

\* C26: every get_analytics result has as many daily_history entries as its
\* period.days says, whatever start_date and end_date were given (a start_date
\* after the end_date included).
C26_HistoryLenIsDays ==
    report.success => Len(report.daily_history) = report.days

\* the sum of the viewers of the entries of a daily_history
RECURSIVE SumViewers(_)
SumViewers(h) == IF h = <<>> THEN 0 ELSE Head(h).viewers + SumViewers(Tail(h))

\* C27: in every get_analytics result the viewers of the daily_history entries
\* add up to at least summary.total_new_viewers.
C27_NewViewersAreViewers ==
    report.success => SumViewers(report.daily_history) >= report.total_new_viewers

\* a result with a new viewer who viewed on more than one day of the period
C27_Witness ==
    /\ report.success
    /\ report.total_new_viewers >= 1
    /\ SumViewers(report.daily_history) > report.total_new_viewers

\* C28: each of the three difference percentages of a get_analytics result is
\* (curr - prev) / prev * 100 rounded to the nearest integer, halves away from
\* zero, when prev > 0, and 0 (curr = 0) or 100 (curr > 0) when prev = 0.
C28_RoundedDifference ==
    report.success =>
        LET org_id == report.org_id
            start == report.start
            end == report.end
            prev_start == start - report.days
            prev_end == start - 1
            Nearest(n, d) == IF n >= 0 THEN (2 * n + d) \div (2 * d)
                             ELSE 0 - ((2 * (0 - n) + d) \div (2 * d))
            Expected(curr, prev) ==
                IF prev > 0 THEN Nearest((curr - prev) * 100, prev)
                ELSE IF curr = 0 THEN 0 ELSE 100
        IN  /\ report.difference_total_viewers_percentage =
                   Expected(Cardinality(ViewersIn(tables, org_id, start, end)),
                            Cardinality(ViewersIn(tables, org_id, prev_start, prev_end)))
            /\ report.difference_total_customers_percentage =
                   Expected(Cardinality(Customers(tables, org_id)),
                            Cardinality(PrevCustomers(tables, org_id, prev_end)))
            /\ report.difference_average_view_time =
                   Expected(ViewTimeMinutes(tables, SessionsIn(tables, org_id, start, end)),
                            ViewTimeMinutes(tables, SessionsIn(tables, org_id, prev_start, prev_end)))

\* C29: when no viewing session of the tenant starts in the requested period,
\* every summary metric of the get_analytics result is 0 and daily_history has
\* one entry per day of the period, each with viewers, customers and
\* average_view_time 0.
C29_EmptyWindowAllZero ==
    (report.success /\ SessionsIn(tables, report.org_id, report.start, report.end) = {}) =>
        /\ report.total_viewers = 0
        /\ report.difference_total_viewers_percentage = 0
        /\ report.total_new_viewers = 0
        /\ report.total_customers = 0
        /\ report.difference_total_customers_percentage = 0
        /\ report.average_view_time = 0
        /\ report.difference_average_view_time = 0
        /\ Len(report.daily_history) =
              (IF report.start <= report.end THEN (report.end - report.start) + 1 ELSE 0)
        /\ \A i \in DOMAIN report.daily_history :
              /\ report.daily_history[i].viewers = 0
              /\ report.daily_history[i].customers = 0
              /\ report.daily_history[i].average_view_time = 0

\* C30: _setup_connection makes at most max_retries attempts, returns normally
\* only with a connection established, and raises exactly when all max_retries
\* attempts have failed, for every max_retries >= 0.
C30_SetupContract ==
    \A k \in Components :
        LET s == setup[k]
            done == s.pc \in {"returned", "raised"}
        IN  /\ s.attempts <= s.max_retries
            /\ s.pc = "returned" => s.connected
            /\ s.pc = "raised" <=> (done /\ ~s.connected /\ s.attempts = s.max_retries)

\* C31: once the shutdown event is set (SIGTERM, SIGINT or stop_consuming) the
\* consumer eventually leaves its loop and ends with channel and connection
\* not open; a handler in flight at that moment returns and its delivery is
\* settled before the connection is closed; and after the loop has exited no
\* delivery is handed to a handler.
C31_GracefulShutdown ==
    /\ [](cons.pc \in {"shutdown", "stopped"} => ~cons.inflight)
    /\ [][(cons.connection = "open" /\ cons'.connection = "closed")
             => (~cons.inflight /\ cons.unacked = 0)]_vars
    /\ [][cons.pc \in {"shutdown", "stopped"} => cons'.handed = cons.handed]_vars
    /\ (cons.shutdown_event ~>
           (cons.pc = "stopped" /\ cons.connection # "open" /\ cons.channel # "open"))

\* the signal has arrived while a handler is in flight
C31_Witness == cons.shutdown_event /\ cons.inflight /\ cons.pc = "handling"

\* C32: a consumer that lost its connection is eventually connected again with
\* its three subscriptions, unless it is shut down; every reconnection declares
\* an exclusive queue the broker has not named before, binds it to
\* cache_updates and subscribes to face_processing_tasks; and the registered
\* task handlers never change.
C32_Reconnects ==
    /\ [][(cons.connection # "open" /\ cons'.connection = "open") =>
             /\ cons'.management_queue > broker.queues
             /\ cons'.management_queue = broker'.queues
             /\ cons'.bound
             /\ cons'.subs = Subscriptions]_vars
    /\ [][cons'.task_handlers = cons.task_handlers]_vars
    /\ (cons.connection = "lost" ~>
           ((cons.connection = "open" /\ cons.subs = Subscriptions) \/ cons.shutdown_event))

\* the consumer is connected again after a loss, on its second exclusive queue
C32_Witness ==
    /\ broker.drops >= 1
    /\ cons.connection = "open"
    /\ cons.management_queue = 2
    /\ cons.task_handlers = SupportedTasks

\* C33: in every state of the worker's index every face_id in a tenant's face
\* list and every face_id in a user's face list has an embedding stored.
C33_FacesHaveEmbeddings ==
    /\ \A t \in DOMAIN cache.faces : \A r \in ListItems(cache.faces[t]) :
          r.face_id \in DOMAIN cache.embeddings
    /\ \A t \in DOMAIN cache.users : \A u \in DOMAIN cache.users[t] :
          \A f \in ListItems(cache.users[t][u]) : f \in DOMAIN cache.embeddings

\* C34: in every state of the worker's index every face_id in a user's face
\* list has a row in the face list of the user's tenant with that user as its
\* owner.
C34_UserFacesInFaceList ==
    \A t \in DOMAIN cache.users : \A u \in DOMAIN cache.users[t] :
        \A f \in ListItems(cache.users[t][u]) :
            /\ t \in DOMAIN cache.faces
            /\ FaceData(f, u) \in ListItems(cache.faces[t])

\* C35: a worker's index changes only in a step in which a callback handles a
\* delivery of its cache_updates subscription; handling a delivery of
\* face_processing_tasks (or of any other queue) leaves it unchanged.
C35_FanoutSoleWriter ==
    [][index' # index => last'.queue = "cache_updates"]_vars

\* C36: in every service call that changes the faces, users or organizations
\* of the store, each message published to the workers comes after the commit
\* of the change it announces.
C36_CommitBeforePublish ==
    \A i \in DOMAIN call.events :
        call.events[i].kind = "publish" =>
            \E j \in 1..(i - 1) : call.events[j] = Committed(call.events[i].what)

\* what recognition in tenant t reads: its users, its face rows, and the
\* embedding stored for each face row (-1 when none is stored)
TenantView(c, t) ==
    [users |-> IF t \in DOMAIN c.users
               THEN {<<u, c.users[t][u]>> : u \in DOMAIN c.users[t]} ELSE {},
     faces |-> IF t \in DOMAIN c.faces THEN c.faces[t] ELSE <<>>,
     embeddings |-> IF t \in DOMAIN c.faces
                    THEN {<<r.face_id, IF r.face_id \in DOMAIN c.embeddings
                                       THEN c.embeddings[r.face_id] ELSE -1>> :
                             r \in ListItems(c.faces[t])}
                    ELSE {}]

\* the task types that change the storage
ManagementTasks ==
    {"create_company", "create_user", "add_face", "delete_face", "delete_user", "delete_company"}

\* C37: a management task for one tenant leaves the users, the face rows and
\* the embeddings of the face rows of every other tenant unchanged.
C37_TenantIsolation ==
    [][(nops' # nops /\ op'.task \in ManagementTasks) =>
          \A t \in Tenants \ {op'.company} : TenantView(cache', t) = TenantView(cache, t)]_vars

\* ---- FaceTaskHandler.__init__ with DATA_SOURCE=LOCAL_FILE ----

\* the sections that _populate_cache looks for in the data of the file
Sections == {"companies", "users", "faces", "embeddings"}

\* the contents of the files: the storage of a worker after create_company(t1),
\* create_user(t1, u1, 1) and delete_face(t1, u1, 1), a user without faces
Snapshots ==
    LET c0 == HandleCreateCompany(EmptyCache, "t1").cache
        c1 == HandleCreateUser(c0, "t1", "u1", 1, 1).cache
    IN  {HandleDeleteFace(c1, "t1", "u1", 1).cache}

\* _populate_cache: each section that the data holds replaces that part of
\* the storage, the other parts stay as they were
PopulateSections(c, data, present) ==
    [companies |-> IF "companies" \in present THEN data.companies ELSE c.companies,
     users |-> IF "users" \in present THEN data.users ELSE c.users,
     faces |-> IF "faces" \in present THEN data.faces ELSE c.faces,
     embeddings |-> IF "embeddings" \in present THEN data.embeddings ELSE c.embeddings]

\* _load_from_file in the constructor, before any task is handled
LoadFromFile ==
    \E data \in Snapshots, present \in SUBSET Sections :
        /\ nops = 0
        /\ cache = EmptyCache
        /\ cache' = PopulateSections(EmptyCache, data, present)
        /\ cache' # cache
        /\ owner' = [x \in DOMAIN cache'.embeddings |-> <<"t1", "u1">>]
        /\ UNCHANGED <<client, cvars, lvars, avars, rvars, bevars, bpvars, brvars, wvars, svars, op, nops>>

\* a worker that loads a file and then handles a sequence of tasks
NextLoaded ==
    \/ LoadFromFile
    \/ NextIndex

SpecLoaded == InitIndex /\ [][NextLoaded]_vars

\* C38: a task that is answered with status = error leaves the index
\* (companies, users, faces, embeddings) exactly as it was before the task
C38_ErrorLeavesIndex ==
    [][(nops' # nops /\ op'.status = "error") => cache' = cache]_vars

\* C39: when register for a new user failed after the user row was committed,
\* the next register call for a user whose row exists without faces, with an
\* image that holds a face, succeeds and enrolls the face
C39_RetryEnrolls ==
    [][(/\ call.service = "register"
        /\ call.events = <<Committed("user"), Published("face")>>
        /\ call.outcome = "InternalError"
        /\ db' # db \/ cache' # cache \/ call' # call
        /\ call'.service = "register"
        /\ call'.retry
        /\ call'.valid)
       => /\ call'.outcome = "success"
          /\ db'.faces # db.faces]_vars

\* the faces of the index are the faces that have a record in the store
IndexMatchesStore(c, d) == IndexFaces(c) = {r.face_id : r \in d.faces}

\* C40: when FaceService.delete or UserService.delete ends, with success or
\* with an error, also when a call to the workers was lost or timed out, a
\* face is in the index exactly when its record is in the store
C40_DeleteKeepsAgreement ==
    [][(/\ db' # db \/ cache' # cache \/ call' # call
        /\ call'.service \in {"face_delete", "user_delete"}
        /\ IndexMatchesStore(cache, db))
       => IndexMatchesStore(cache', db')]_vars

====
